---------------------------- MODULE Spec2Model ----------------------------
(***************************************************************************)
(* The task-board server of simple-trello: the Task and ProjectMember      *)
(* tables and the request handlers that read and write them (create task,  *)
(* board fetch, board layout, patch task, delete task), and the client's   *)
(* grouping of a fetched board into columns.                               *)
(*                                                                         *)
(* A handler runs as a sequence of steps and the steps of the requests in  *)
(* flight interleave freely.  A step is one awaited access to the Task     *)
(* table together with the code that leads to it: the reads of the         *)
(* ProjectMember and Project tables that precede it are part of the step:  *)
(* the task handlers do not write those tables, and the project handlers   *)
(* (create project, join) only add rows to them, so a membership a handler *)
(* found at an earlier read is still there at the step.  A step draws the  *)
(* part of the request it is the first to read (the header, the URL, the   *)
(* fields of the body).                                                    *)
(***************************************************************************)
EXTENDS Integers, Sequences, FiniteSets, TLC

\* ------------------------------------------------------------------ bounds
\* Requests issued in one run.
MaxReq == 2
\* Largest order value a request body carries.
MaxOrder == 1

\* Requests in flight at the same time.
MaxInFlight == 2
\* Largest number of entries of a layout batch.
MaxBatch == 2

ReqIds == 1..MaxInFlight
BatchLens == 0..MaxBatch

\* ------------------------------------------------------- program constants
STATUSES == <<"TODO", "DOING", "DONE">>
StatusSet == {STATUSES[i] : i \in 1..Len(STATUSES)}

\* undefined and null of a JSON body or of a nullable column
Undefined == "undefined"
Null == "null"
\* no order: undefined in a body, null from the aggregate of an empty partition
NoOrder == -1
\* no task id (the empty string of a body, which the schemas refuse)
NoTask == 0

\* ----------------------------------------------------------- input domains
Projects == {"p1", "p2"}
Members == {"m1", "m2"}
\* the ids the Project and Member tables give their rows, in this order
ProjectIds == <<"p1", "p2", "p3", "p4", "p5", "p6", "p7", "p8">>
MemberIds == <<"m1", "m2", "m3", "m4", "m5", "m6", "m7", "m8">>
\* the x-member-id header: a member id, or absent
Callers == Members \cup {""}
\* the project of the URL of a create-task, board or layout request
UrlProjects == {"p1"}
OrderValues == 0..MaxOrder

\* The board in use that a run starts from: tasks 1 and 2 of project p1 in
\* TODO with orders 0 and 1, created by m1, and task 3 of project p2.
SeedRow(projectId, order, creatorId, createdAt) ==
    [projectId |-> projectId, title |-> "t1", description |-> Null,
     status |-> "TODO", order |-> order, dueDate |-> Null, assigneeId |-> Null,
     creatorId |-> creatorId, createdAt |-> createdAt]
SeedStore ==
    <<SeedRow("p1", 0, "m1", 1), SeedRow("p1", 1, "m1", 2), SeedRow("p2", 0, "m2", 3)>>
\* The task ids a request names: the seeded ones and those a run creates.
TaskIds == 1..(Len(SeedStore) + MaxReq)

VARIABLES
    tasks,           \* the Task table: id -> row
    projectMembers,  \* the ProjectMember table: a set of rows
    nextId,          \* the id and creation time of the next row of Task
    started,         \* requests issued so far
    reqs,            \* the task requests in flight: slot -> handler state
    projects,        \* the Project table: a set of rows
    members,         \* the Member table: the ids of its rows
    preqs,           \* the project requests in flight: slot -> handler state
    invite,          \* generateInviteCode: the random bytes and the string built
    columns,         \* the board client: its columns, status -> list of tasks
    savingRef,       \* the board client: savingRef.current
    storedId,        \* the browser's stored member id, "" when there is none
    gets,            \* the board client's refresh calls: slot -> state
    puts,            \* the board client's layout writes: slot -> state
    other,           \* another member's create-task request
    add,             \* the board client's create-task request
    page,            \* the start page: its create-project or join request
    dragged,         \* drags ended so far
    polled           \* polls issued so far

\* What the project handlers keep, beside ProjectMember.
projVars == <<projects, members, preqs, invite>>
\* What the board client keeps, and the requests it exchanges.
clientVars ==
    <<columns, savingRef, storedId, gets, puts, other, add, page, dragged, polled>>
vars == <<tasks, projectMembers, nextId, started, reqs, projVars, clientVars>>

\* ------------------------------------------------------------------ bodies
EmptyPatch ==
    [title |-> Undefined, description |-> Undefined, status |-> Undefined,
     order |-> NoOrder, dueDate |-> Undefined, assigneeId |-> Undefined]

\* Bodies of a create-task request: a title (or none, which the schema
\* refuses) and optionally a status and an assignee; description and dueDate
\* are left out.
PostBodies ==
    [title : {"t1"}, status : StatusSet \cup {Undefined},
     assigneeId : Members \cup {Undefined}]
    \cup {[title |-> Undefined, status |-> Undefined, assigneeId |-> Undefined]}

\* The task ids of a layout body, in the body's order.
IdSeqs == UNION {[1..n -> TaskIds] : n \in BatchLens} \cup {<<NoTask>>}
\* The status and order of one entry of a layout body.
EntryValues == [status : StatusSet, order : OrderValues]

\* Bodies of a patch request: one field alone, or all six together.
PatchSingles ==
    {[EmptyPatch EXCEPT !.title = "t2"]}
    \cup {[EmptyPatch EXCEPT !.description = d] : d \in {"d", Null}}
    \cup {[EmptyPatch EXCEPT !.status = s] : s \in StatusSet}
    \cup {[EmptyPatch EXCEPT !.order = o] : o \in OrderValues}
    \cup {[EmptyPatch EXCEPT !.dueDate = d] : d \in {"due", Null}}
    \cup {[EmptyPatch EXCEPT !.assigneeId = a] : a \in Members \cup {Null}}
PatchFull ==
    [title : {"t2"}, description : {"d"}, status : {"DONE"}, order : {MaxOrder},
     dueDate : {"due"}, assigneeId : Members \cup {Null}]
PatchBodies == PatchSingles \cup PatchFull

\* ------------------------------------------------------------------- store
\* The membership looked up by the member alone, whatever the project.
IsMemberOfAny(projectId, memberId) ==
    \E pm \in projectMembers : pm.memberId = memberId

IsMember(projectId, memberId) ==
    \E pm \in projectMembers : pm.projectId = projectId /\ pm.memberId = memberId

\* The ids of a (project, status) partition.
Partition(store, projectId, status) ==
    {id \in DOMAIN store : store[id].projectId = projectId /\ store[id].status = status}

\* prisma.task.aggregate({where: {projectId, status}, _max: {order: true}})
MaxOrderOf(store, projectId, status) ==
    LET part == Partition(store, projectId, status)
    IN  IF part = {} THEN NoOrder
        ELSE CHOOSE o \in {store[id].order : id \in part} :
                \A id \in part : store[id].order <= o

\* The order left to the column's default ("order" INTEGER NOT NULL DEFAULT 0).
AppendOrderDefault(store, projectId, status) == 0

\* const order = (maxOrder._max.order ?? -1) + 1
AppendOrder(store, projectId, status) ==
    LET m == MaxOrderOf(store, projectId, status)
    IN  (IF m = NoOrder THEN -1 ELSE m) + 1

StatusRank(s) == CHOOSE i \in 1..Len(STATUSES) : STATUSES[i] = s

\* The ordering with equal orders resolved by the newest first.
RowBeforeNewestFirst(a, b) ==
    \/ StatusRank(a.status) < StatusRank(b.status)
    \/ a.status = b.status /\ a.order < b.order
    \/ a.status = b.status /\ a.order = b.order /\ a.createdAt > b.createdAt

\* orderBy: [{status: "asc"}, {order: "asc"}, {createdAt: "asc"}]
RowBefore(a, b) ==
    \/ StatusRank(a.status) < StatusRank(b.status)
    \/ a.status = b.status /\ a.order < b.order
    \/ a.status = b.status /\ a.order = b.order /\ a.createdAt < b.createdAt

RECURSIVE SortRows(_)
SortRows(rows) ==
    IF rows = {} THEN <<>>
    ELSE LET first == CHOOSE a \in rows : \A b \in rows \ {a} : RowBefore(a, b)
         IN  <<first>> \o SortRows(rows \ {first})

\* The row of the Task table as a handler selects it, with its id.
Selected(store, id) ==
    [id |-> id, title |-> store[id].title, description |-> store[id].description,
     status |-> store[id].status, order |-> store[id].order,
     dueDate |-> store[id].dueDate, assigneeId |-> store[id].assigneeId,
     creatorId |-> store[id].creatorId, createdAt |-> store[id].createdAt]

\* prisma.task.findMany({where: {projectId}, orderBy: ...}) of the board fetch
BoardTasks(store, projectId) ==
    SortRows({Selected(store, id) :
                id \in {i \in DOMAIN store : store[i].projectId = projectId}})

\* ------------------------------------------------------------------ client
\* Array.prototype.sort((a, b) => a.order - b.order): stable.
RECURSIVE InsertByOrder(_, _)
InsertByOrder(sorted, t) ==
    IF sorted = <<>> THEN <<t>>
    ELSE IF sorted[Len(sorted)].order <= t.order THEN Append(sorted, t)
    ELSE Append(InsertByOrder(SubSeq(sorted, 1, Len(sorted) - 1), t),
                sorted[Len(sorted)])

RECURSIVE SortByOrder(_)
SortByOrder(list) ==
    IF list = <<>> THEN <<>>
    ELSE InsertByOrder(SortByOrder(SubSeq(list, 1, Len(list) - 1)), list[Len(list)])

\* groupByStatus: the fetched list split by status, each column sorted by order.
groupByStatus(list) ==
    [s \in StatusSet |-> SortByOrder(SelectSeq(list, LAMBDA t : t.status = s))]

\* The ids of a column, top to bottom.
ColumnIds(column) == [i \in 1..Len(column) |-> column[i].id]

\* ---------------------------------------------------------------- requests
IdleReq ==
    [op |-> "none", pc |-> "idle", memberId |-> "", projectId |-> "",
     taskId |-> NoTask, title |-> Undefined, status |-> Undefined,
     assigneeId |-> Undefined, order |-> NoOrder, readId |-> 0,
     ids |-> <<>>, batch |-> <<>>, pending |-> <<>>, patch |-> EmptyPatch,
     resp |-> "", result |-> <<>>]

Free(r) == reqs[r].pc \in {"idle", "done"}

\* A request takes the lowest slot whose handler has ended.
CanStart(r) ==
    /\ started < MaxReq
    /\ Free(r)
    /\ \A q \in ReqIds : q < r => ~Free(q)

\* The handler returns a refusal whatever it did.
DoneRefused(req, code) == [req EXCEPT !.pc = "done", !.resp = "FORBIDDEN"]

\* The handler returns the response `code`.
Done(req, code) == [req EXCEPT !.pc = "done", !.resp = code]

\* The identity required and the membership not looked up.
AuthErrorHeaderOnly(projectId, memberId) ==
    IF memberId = "" THEN "MISSING_MEMBER_ID" ELSE ""

\* getMemberIdOrThrow, then assertMemberInProject: the error, or "".
AuthError(projectId, memberId) ==
    IF memberId = "" THEN "MISSING_MEMBER_ID"
    ELSE IF ~IsMember(projectId, memberId) THEN "FORBIDDEN"
    ELSE ""

\* -------------------------------------------------------- POST create task
\* CreateTaskSchema.safeParse
PostBodyOk(body) == body.title # Undefined

\* POST up to the aggregate read: identity and membership, the body, the
\* defaults of status and assignee, the assignee's membership, the largest
\* order of the partition.
PostMax(r, memberId, projectId, body) ==
    /\ CanStart(r)
    /\ LET req == [IdleReq EXCEPT !.op = "POST", !.memberId = memberId,
                                  !.projectId = projectId]
           err == AuthError(projectId, memberId)
           status == IF body.status = Undefined THEN "TODO" ELSE body.status
           assigneeId == IF body.assigneeId = Undefined THEN Null ELSE body.assigneeId
       IN  reqs' = [reqs EXCEPT ![r] =
              IF err # "" THEN Done(req, err)
              ELSE IF ~PostBodyOk(body) THEN Done(req, "INVALID_BODY")
              ELSE IF assigneeId # Null /\ ~IsMember(projectId, assigneeId)
                   THEN Done(req, "ASSIGNEE_NOT_IN_PROJECT")
              ELSE [req EXCEPT !.pc = "create", !.title = body.title,
                               !.status = status, !.assigneeId = assigneeId,
                               !.readId = nextId,
                               !.order = AppendOrder(tasks, projectId, status)]]
    /\ started' = started + 1
    /\ UNCHANGED <<tasks, projectMembers, projVars, clientVars, nextId>>

\* The row prisma.task.create inserts.
NewTask(req, createdAt) ==
    [projectId |-> req.projectId, title |-> req.title, description |-> Null,
     status |-> req.status, order |-> req.order, dueDate |-> Null,
     assigneeId |-> req.assigneeId, creatorId |-> req.memberId,
     createdAt |-> createdAt]

\* POST: the insert.
PostCreate(r) ==
    /\ reqs[r].op = "POST" /\ reqs[r].pc = "create"
    /\ tasks' = [id \in DOMAIN tasks \cup {nextId} |->
                    IF id = nextId THEN NewTask(reqs[r], nextId) ELSE tasks[id]]
    /\ nextId' = nextId + 1
    /\ reqs' = [reqs EXCEPT ![r] = [Done(reqs[r], "OK") EXCEPT !.taskId = nextId]]
    /\ UNCHANGED <<projectMembers, projVars, clientVars, started>>

\* ---------------------------------------------------------------- GET board
\* GET: identity and membership, the project, its members, its tasks.
GetBoard(r, memberId, projectId) ==
    /\ CanStart(r)
    /\ LET req == [IdleReq EXCEPT !.op = "GET", !.memberId = memberId,
                                  !.projectId = projectId]
           err == AuthError(projectId, memberId)
       IN  reqs' = [reqs EXCEPT ![r] =
              IF err # "" THEN Done(req, err)
              ELSE [Done(req, "OK") EXCEPT !.result = BoardTasks(tasks, projectId)]]
    /\ started' = started + 1
    /\ UNCHANGED <<tasks, projectMembers, projVars, clientVars, nextId>>

\* --------------------------------------------------------- PUT board layout
\* BoardUpdateSchema.safeParse: every id a non-empty string.
BoardBodyOk(ids) == \A i \in 1..Len(ids) : ids[i] # NoTask

\* prisma.task.findMany({where: {id: {in: ids}}}): the rows found.
FindMany(store, ids) == {id \in DOMAIN store : \E i \in 1..Len(ids) : ids[i] = id}

\* The validation without its project test.
TasksCountedOnly(store, ids, projectId) ==
    Cardinality(FindMany(store, ids)) # Len(ids)

\* The validation that counts the distinct ids of the body.
TasksDistinctCounted(store, ids, projectId) ==
    LET existing == FindMany(store, ids)
    IN  \/ Cardinality(existing) # Cardinality({ids[i] : i \in 1..Len(ids)})
        \/ \E id \in existing : store[id].projectId # projectId

\* existing.length !== ids.length || existing.some((t) => t.projectId !== projectId)
TasksNotInProject(store, ids, projectId) ==
    LET existing == FindMany(store, ids)
    IN  \/ Cardinality(existing) # Len(ids)
        \/ \E id \in existing : store[id].projectId # projectId

\* PUT up to the validation read: identity and membership, the body, the
\* listed tasks.
PutFind(r, memberId, projectId, ids) ==
    /\ CanStart(r)
    /\ LET req == [IdleReq EXCEPT !.op = "PUT", !.memberId = memberId,
                                  !.projectId = projectId]
           err == AuthError(projectId, memberId)
       IN  reqs' = [reqs EXCEPT ![r] =
              IF err # "" THEN Done(req, err)
              ELSE IF ~BoardBodyOk(ids) THEN Done(req, "INVALID_BODY")
              ELSE IF TasksNotInProject(tasks, ids, projectId)
                   THEN Done([req EXCEPT !.ids = ids], "TASKS_NOT_IN_PROJECT")
              ELSE [req EXCEPT !.pc = "commit", !.ids = ids]]
    /\ started' = started + 1
    /\ UNCHANGED <<tasks, projectMembers, projVars, clientVars, nextId>>

\* The update that also takes the task from its assignee.
UpdateEntryUnassigns(store, e) ==
    [store EXCEPT ![e.id] =
        [@ EXCEPT !.status = e.status, !.order = e.order, !.assigneeId = Null]]

\* The update that writes the status and leaves the order.
UpdateEntryStatusOnly(store, e) ==
    [store EXCEPT ![e.id] = [@ EXCEPT !.status = e.status]]

\* prisma.task.update({where: {id}, data: {status, order}}) of one entry
UpdateEntry(store, e) ==
    [store EXCEPT ![e.id] = [@ EXCEPT !.status = e.status, !.order = e.order]]

\* The updates cut to the first entry of the batch.
UpdateFirst(store, batch) ==
    IF batch = <<>> THEN store
    ELSE [store EXCEPT ![Head(batch).id] =
            [@ EXCEPT !.status = Head(batch).status, !.order = Head(batch).order]]

RECURSIVE UpdateAll(_, _)
UpdateAll(store, batch) ==
    IF batch = <<>> THEN store
    ELSE UpdateAll(UpdateEntry(store, Head(batch)), Tail(batch))

\* The updates in sequence up to the first whose row is gone, the earlier ones
\* kept: a batch that fails without a rollback.
RECURSIVE UpdateUntilMissing(_, _)
UpdateUntilMissing(store, batch) ==
    IF batch = <<>> \/ Head(batch).id \notin DOMAIN store THEN store
    ELSE UpdateUntilMissing(UpdateEntry(store, Head(batch)), Tail(batch))

UpdatesNoRollback(store, batch) ==
    [store |-> UpdateUntilMissing(store, batch),
     ok |-> \A i \in 1..Len(batch) : batch[i].id \in DOMAIN store,
     rest |-> <<>>]

\* One update at a time, outside a transaction: the first entry is written (or
\* fails, with the earlier ones kept) and the others are still to come.
UpdatesOneByOne(store, batch) ==
    IF batch = <<>> THEN [store |-> store, ok |-> TRUE, rest |-> <<>>]
    ELSE IF Head(batch).id \notin DOMAIN store
         THEN [store |-> store, ok |-> FALSE, rest |-> <<>>]
    ELSE [store |-> UpdateEntry(store, Head(batch)), ok |-> TRUE, rest |-> Tail(batch)]

\* prisma.$transaction([...updates]): the updates in sequence as one commit;
\* an update of a row that is gone fails and rolls all of them back.  `rest`
\* is what is left to write after this commit: nothing.
Transaction(store, batch) ==
    IF \A i \in 1..Len(batch) : batch[i].id \in DOMAIN store
    THEN [store |-> UpdateAll(store, batch), ok |-> TRUE, rest |-> <<>>]
    ELSE [store |-> store, ok |-> FALSE, rest |-> <<>>]

\* The body's entries: its ids with their status and order.
Entries(ids, values) ==
    [i \in 1..Len(ids) |->
        [id |-> ids[i], status |-> values[i].status, order |-> values[i].order]]

\* PUT: the commit of the batch, whose status and order values are drawn here;
\* a commit that left entries to write goes on with them.
PutCommit(r, values) ==
    /\ reqs[r].op = "PUT" /\ reqs[r].pc = "commit"
    /\ LET first == reqs[r].batch = <<>>
           batch == IF first THEN Entries(reqs[r].ids, values) ELSE reqs[r].batch
           res == Transaction(tasks, IF first THEN batch ELSE reqs[r].pending)
           req == [reqs[r] EXCEPT !.batch = batch, !.pending = res.rest]
       IN  /\ tasks' = res.store
           /\ reqs' = [reqs EXCEPT ![r] =
                 IF ~res.ok THEN Done(req, "INTERNAL_ERROR")
                 ELSE IF res.rest = <<>> THEN Done(req, "OK")
                 ELSE req]
    /\ UNCHANGED <<projectMembers, projVars, clientVars, nextId, started>>

\* -------------------------------------------------------------- PATCH task
\* PATCH up to the read of the task: identity, the body (a body without keys
\* is refused), the task.
PatchFind(r, memberId, taskId, hasKeys) ==
    /\ CanStart(r)
    /\ LET req == [IdleReq EXCEPT !.op = "PATCH", !.memberId = memberId,
                                  !.taskId = taskId]
       IN  reqs' = [reqs EXCEPT ![r] =
              IF memberId = "" THEN Done(req, "MISSING_MEMBER_ID")
              ELSE IF ~hasKeys THEN Done(req, "INVALID_BODY")
              ELSE IF taskId \notin DOMAIN tasks THEN Done(req, "TASK_NOT_FOUND")
              ELSE [req EXCEPT !.pc = "update", !.projectId = tasks[taskId].projectId]]
    /\ started' = started + 1
    /\ UNCHANGED <<tasks, projectMembers, projVars, clientVars, nextId>>

\* The assignee's membership left unchecked.
AssigneeUnchecked(projectId, body) == FALSE

\* The assignee of the body is a member id that is not in the task's project.
AssigneeNotInProject(projectId, body) ==
    /\ body.assigneeId # Undefined
    /\ body.assigneeId # Null
    /\ ~IsMember(projectId, body.assigneeId)

\* The update that puts a task whose status it writes at the top of its new
\* column when the body gives no order.
PatchRowToTop(row, body) ==
    [row EXCEPT
        !.title = IF body.title # Undefined THEN body.title ELSE @,
        !.description = IF body.description # Undefined THEN body.description ELSE @,
        !.status = IF body.status # Undefined THEN body.status ELSE @,
        !.order = IF body.order # NoOrder THEN body.order
                  ELSE IF body.status # Undefined THEN 0 ELSE @,
        !.dueDate = IF body.dueDate # Undefined THEN body.dueDate ELSE @,
        !.assigneeId = IF body.assigneeId # Undefined THEN body.assigneeId ELSE @]

\* The update that moves a task forward only: a status behind the task's is
\* not written.
PatchRowForwardOnly(row, body) ==
    [row EXCEPT
        !.title = IF body.title # Undefined THEN body.title ELSE @,
        !.description = IF body.description # Undefined THEN body.description ELSE @,
        !.status = IF body.status # Undefined
                      /\ StatusRank(body.status) >= StatusRank(row.status)
                   THEN body.status ELSE @,
        !.order = IF body.order # NoOrder THEN body.order ELSE @,
        !.dueDate = IF body.dueDate # Undefined THEN body.dueDate ELSE @,
        !.assigneeId = IF body.assigneeId # Undefined THEN body.assigneeId ELSE @]

\* The update whose body was given the schema's defaults: a status and an
\* order the body leaves out are written as TODO and 0.
PatchRowDefaulted(row, body) ==
    [row EXCEPT
        !.title = IF body.title # Undefined THEN body.title ELSE @,
        !.description = IF body.description # Undefined THEN body.description ELSE @,
        !.status = IF body.status # Undefined THEN body.status ELSE STATUSES[1],
        !.order = IF body.order # NoOrder THEN body.order ELSE 0,
        !.dueDate = IF body.dueDate # Undefined THEN body.dueDate ELSE @,
        !.assigneeId = IF body.assigneeId # Undefined THEN body.assigneeId ELSE @]

\* data: the fields of the body that are present, written over the row.
PatchRow(row, body) ==
    [row EXCEPT
        !.title = IF body.title # Undefined THEN body.title ELSE @,
        !.description = IF body.description # Undefined THEN body.description ELSE @,
        !.status = IF body.status # Undefined THEN body.status ELSE @,
        !.order = IF body.order # NoOrder THEN body.order ELSE @,
        !.dueDate = IF body.dueDate # Undefined THEN body.dueDate ELSE @,
        !.assigneeId = IF body.assigneeId # Undefined THEN body.assigneeId ELSE @]

\* PATCH from the membership read to the update: the caller's membership of
\* the task's project, the assignee's, the write of the row (which fails when
\* the row is gone).
PatchUpdate(r, body) ==
    /\ reqs[r].op = "PATCH" /\ reqs[r].pc = "update"
    /\ LET req == reqs[r]
           id == req.taskId
           rejected ==
               IF ~IsMember(req.projectId, req.memberId) THEN "FORBIDDEN"
               ELSE IF AssigneeNotInProject(req.projectId, body)
                    THEN "ASSIGNEE_NOT_IN_PROJECT"
               ELSE IF id \notin DOMAIN tasks THEN "INTERNAL_ERROR"
               ELSE ""
       IN  /\ tasks' = IF rejected # "" THEN tasks
                       ELSE [tasks EXCEPT ![id] = PatchRow(@, body)]
           /\ reqs' = [reqs EXCEPT ![r] =
                 Done([req EXCEPT !.patch = body],
                      IF rejected # "" THEN rejected ELSE "OK")]
    /\ UNCHANGED <<projectMembers, projVars, clientVars, nextId, started>>

\* ------------------------------------------------------------- DELETE task
\* The read that answers a task that is gone with an error.
DeleteFindStrict(r, memberId, taskId) ==
    /\ CanStart(r)
    /\ LET req == [IdleReq EXCEPT !.op = "DELETE", !.memberId = memberId,
                                  !.taskId = taskId]
       IN  reqs' = [reqs EXCEPT ![r] =
              IF memberId = "" THEN Done(req, "MISSING_MEMBER_ID")
              ELSE IF taskId \notin DOMAIN tasks THEN Done(req, "TASK_NOT_FOUND")
              ELSE [req EXCEPT !.pc = "delete", !.projectId = tasks[taskId].projectId]]
    /\ started' = started + 1
    /\ UNCHANGED <<tasks, projectMembers, projVars, clientVars, nextId>>

\* DELETE up to the read of the task: identity, the task (a task that is
\* gone answers ok).
DeleteFind(r, memberId, taskId) ==
    /\ CanStart(r)
    /\ LET req == [IdleReq EXCEPT !.op = "DELETE", !.memberId = memberId,
                                  !.taskId = taskId]
       IN  reqs' = [reqs EXCEPT ![r] =
              IF memberId = "" THEN Done(req, "MISSING_MEMBER_ID")
              ELSE IF taskId \notin DOMAIN tasks THEN Done(req, "OK")
              ELSE [req EXCEPT !.pc = "delete", !.projectId = tasks[taskId].projectId]]
    /\ started' = started + 1
    /\ UNCHANGED <<tasks, projectMembers, projVars, clientVars, nextId>>

\* The delete that closes the gap: the later tasks of the partition move up.
DeleteRowRenumber(store, id) ==
    [i \in DOMAIN store \ {id} |->
        IF /\ store[i].projectId = store[id].projectId
           /\ store[i].status = store[id].status
           /\ store[i].order > store[id].order
        THEN [store[i] EXCEPT !.order = @ - 1]
        ELSE store[i]]

\* prisma.task.delete({where: {id}}): the store without the row.
DeleteRow(store, id) == [i \in DOMAIN store \ {id} |-> store[i]]

\* DELETE from the membership read to the delete (which fails when the row is
\* gone).
DeleteTask(r) ==
    /\ reqs[r].op = "DELETE" /\ reqs[r].pc = "delete"
    /\ LET req == reqs[r]
           rejected ==
               IF ~IsMember(req.projectId, req.memberId) THEN "FORBIDDEN"
               ELSE IF req.taskId \notin DOMAIN tasks THEN "INTERNAL_ERROR"
               ELSE ""
       IN  /\ tasks' = IF rejected # "" THEN tasks ELSE DeleteRow(tasks, req.taskId)
           /\ reqs' = [reqs EXCEPT ![r] =
                 Done(req, IF rejected # "" THEN rejected ELSE "OK")]
    /\ UNCHANGED <<projectMembers, projVars, clientVars, nextId, started>>

\* ------------------------------------------------------------ invite codes
\* for (let attempt = 0; attempt < 8; attempt++)
MaxAttempts == 8

\* generateInviteCode(length = 8)
CodeLength == 8
\* The largest value of a byte of randomBytes.
MaxByte == 255

\* The base-32 alphabet of RFC 4648, which has I and O.
alphabetRfc ==
    <<"A", "B", "C", "D", "E", "F", "G", "H", "I", "J", "K", "L", "M", "N", "O", "P",
      "Q", "R", "S", "T", "U", "V", "W", "X", "Y", "Z", "2", "3", "4", "5", "6", "7">>

\* const alphabet = "ABCDEFGHJKLMNPQRSTUVWXYZ23456789", one character an entry
alphabet ==
    <<"A", "B", "C", "D", "E", "F", "G", "H", "J", "K", "L", "M", "N", "P", "Q", "R",
      "S", "T", "U", "V", "W", "X", "Y", "Z", "2", "3", "4", "5", "6", "7", "8", "9">>

\* The loop of generateInviteCode over the bytes randomBytes returned:
\* out += alphabet[bytes[i] % alphabet.length].  The string is kept as the
\* sequence of its characters; JavaScript counts its indices from 0.
generateInviteCode(bytes) ==
    [i \in 1..Len(bytes) |-> alphabet[(bytes[i] % Len(alphabet)) + 1]]

\* Results of randomBytes(8): one byte takes every value, at every place,
\* among bytes that are all the smallest or all the largest.
ByteSeqs ==
    {[i \in 1..CodeLength |-> IF i = place THEN byte ELSE fill] :
        place \in 1..CodeLength, byte \in 0..MaxByte, fill \in {0, MaxByte}}

\* The call of generateInviteCode() of a run, in which randomBytes returns
\* `bytes`.
GenerateCode(bytes) ==
    /\ invite.bytes = <<>>
    /\ invite' = [bytes |-> bytes, out |-> generateInviteCode(bytes)]
    /\ UNCHANGED <<tasks, projectMembers, nextId, started, reqs, projects, members,
                   preqs, clientVars>>

\* Codes generateInviteCode can return.
InviteCodes == {"ABCDEFGH", "JKLMNPQR", "STUVWXYZ"}

\* Codes a join body carries: a code as issued, in lower case, of no project,
\* and one shorter than the schema's 4 characters.
JoinCodes == {"ABCDEFGH", "jklmnpqr", "STUVWXYZ", "22223333", "ab"}

\* String.prototype.toUpperCase, on the codes of the join bodies.
toUpperCase(s) ==
    CASE s = "jklmnpqr" -> "JKLMNPQR"
      [] s = "ab" -> "AB"
      [] OTHER -> s

\* z.string().trim().min(4).max(32)
CodeLengthOk(s) == s # "ab"

\* The projects of the board in use, with their invite codes.
SeedProjects ==
    {[id |-> "p1", inviteCode |-> "ABCDEFGH"], [id |-> "p2", inviteCode |-> "JKLMNPQR"]}

\* The id the next row of a table gets.
NextProjectId == ProjectIds[Cardinality(projects) + 1]
NextMemberId == MemberIds[Cardinality(members) + 1]

IdleProjectReq ==
    [op |-> "none", pc |-> "idle", memberId |-> "", projectId |-> "",
     inviteCode |-> "", attempt |-> 0, resp |-> ""]

ProjectFree(r) == preqs[r].pc \in {"idle", "done"}

\* A project request takes the lowest slot whose handler has ended.
ProjectCanStart(r) ==
    /\ started < MaxReq
    /\ ProjectFree(r)
    /\ \A q \in ReqIds : q < r => ~ProjectFree(q)

\* ---------------------------------------------------- POST create project
\* Create project up to the insert of the creator: the body, member.create.
CreateMember(r, bodyOk) ==
    /\ ProjectCanStart(r)
    /\ LET req == [IdleProjectReq EXCEPT !.op = "CREATE"]
       IN  IF ~bodyOk
           THEN /\ preqs' = [preqs EXCEPT ![r] = Done(req, "INVALID_BODY")]
                /\ members' = members
           ELSE /\ preqs' = [preqs EXCEPT ![r] =
                       [req EXCEPT !.pc = "project", !.memberId = NextMemberId]]
                /\ members' = members \cup {NextMemberId}
    /\ started' = started + 1
    /\ UNCHANGED <<tasks, projectMembers, nextId, reqs, projects, invite, clientVars>>

\* The index that refuses nothing.
CodeNeverTaken(rows, code) == FALSE

\* The unique index Project_inviteCode_key refuses the code.
CodeTaken(rows, code) == \E p \in rows : p.inviteCode = code

\* The loop that never gives up.
LastAttemptNever(attempt) == FALSE

\* The loop ends after this failed attempt: attempt < 8 no longer holds.
LastAttempt(attempt) == attempt + 1 >= MaxAttempts

\* The membership project.create nests: the creator, as OWNER.
CreatorMembership(projectId, memberId) ==
    [projectId |-> projectId, memberId |-> memberId, role |-> "OWNER"]

\* One turn of the loop: project.create with a drawn code and the creator's
\* membership, as one write; a refused write is caught and the loop goes on,
\* up to its last turn.
CreateProject(r, code) ==
    /\ preqs[r].op = "CREATE" /\ preqs[r].pc = "project"
    /\ LET req == [preqs[r] EXCEPT !.inviteCode = code, !.attempt = @ + 1]
       IN  IF ~CodeTaken(projects, code)
           THEN /\ projects' = projects \cup {[id |-> NextProjectId, inviteCode |-> code]}
                /\ projectMembers' = projectMembers \cup
                      {CreatorMembership(NextProjectId, req.memberId)}
                /\ preqs' = [preqs EXCEPT ![r] =
                      Done([req EXCEPT !.projectId = NextProjectId], "OK")]
           ELSE /\ UNCHANGED <<projects, projectMembers>>
                /\ preqs' = [preqs EXCEPT ![r] =
                      IF LastAttempt(preqs[r].attempt)
                      THEN Done(req, "INVITE_CODE_GENERATION_FAILED")
                      ELSE req]
    /\ UNCHANGED <<tasks, nextId, started, reqs, members, invite, clientVars>>

\* ------------------------------------------------------ POST join project
\* Join up to the read of the project: the body, project.findUnique by the
\* upper-cased code.
JoinFind(r, code, nameOk) ==
    /\ ProjectCanStart(r)
    /\ LET inviteCode == toUpperCase(code)
           req == [IdleProjectReq EXCEPT !.op = "JOIN"]
       IN  preqs' = [preqs EXCEPT ![r] =
              IF ~nameOk \/ ~CodeLengthOk(code) THEN Done(req, "INVALID_BODY")
              ELSE IF ~\E p \in projects : p.inviteCode = inviteCode
                   THEN Done([req EXCEPT !.inviteCode = inviteCode], "PROJECT_NOT_FOUND")
              ELSE [req EXCEPT !.pc = "join", !.inviteCode = inviteCode,
                       !.projectId = (CHOOSE p \in projects :
                                         p.inviteCode = inviteCode).id]]
    /\ started' = started + 1
    /\ UNCHANGED <<tasks, projectMembers, nextId, reqs, projects, members, invite,
                   clientVars>>

\* The membership of the first project, whatever the code found.
JoinMembershipFirst(projectId, memberId) ==
    [projectId |-> ProjectIds[1], memberId |-> memberId, role |-> "MEMBER"]

\* The membership with the creator's role.
JoinMembershipOwner(projectId, memberId) ==
    [projectId |-> projectId, memberId |-> memberId, role |-> "OWNER"]

\* The membership member.create nests: the new member, as MEMBER.
JoinMembership(projectId, memberId) ==
    [projectId |-> projectId, memberId |-> memberId, role |-> "MEMBER"]

\* Join: member.create with the membership of the project, as one write.
JoinCreate(r) ==
    /\ preqs[r].op = "JOIN" /\ preqs[r].pc = "join"
    /\ members' = members \cup {NextMemberId}
    /\ projectMembers' = projectMembers \cup
          {JoinMembership(preqs[r].projectId, NextMemberId)}
    /\ preqs' = [preqs EXCEPT ![r] = Done([@ EXCEPT !.memberId = NextMemberId], "OK")]
    /\ UNCHANGED <<tasks, nextId, started, reqs, projects, invite, clientVars>>

\* ------------------------------------------------------------ board client
\* One browser showing the board of project p1 to member m1.  Its requests
\* are served as the handlers serve them; a response can also be a failure
\* of the transport.
MaxDrag == 2           \* Drags the user ends in one run
MaxPoll == 1           \* Refreshes the poll timer issues in one run
MaxAppend == 1         \* Tasks the other member creates in one run
MaxFetch == 2          \* Refresh calls in flight at the same time
MaxWrite == 2          \* Layout writes in flight at the same time
MaxAdd == 1            \* Tasks the user adds in one run
FetchIds == 1..MaxFetch
WriteIds == 1..MaxWrite

BoardProject == "p1"
BoardMember == "m1"

IdleGet == [pc |-> "idle", ok |-> FALSE, tasks |-> <<>>]
IdlePut == [pc |-> "idle", ok |-> FALSE, memberId |-> "", updates |-> <<>>]
IdleOther == [pc |-> "idle", status |-> "TODO", order |-> NoOrder, count |-> 0]
IdleAdd ==
    [pc |-> "idle", ok |-> FALSE, memberId |-> "", status |-> "TODO",
     order |-> NoOrder, task |-> <<>>, count |-> 0]

\* normalizeOrders: every task gets its column's status and its index as order.
normalizeOrders(cols) ==
    [s \in StatusSet |->
        [i \in 1..Len(cols[s]) |-> [cols[s][i] EXCEPT !.status = s, !.order = i - 1]]]

\* The entries flattenUpdates pushes for one column.
ColumnUpdates(cols, status) ==
    [i \in 1..Len(cols[status]) |->
        [id |-> cols[status][i].id, status |-> status, order |-> i - 1]]

\* flattenUpdates: the columns in the order of STATUSES, index as order.
flattenUpdates(cols) ==
    ColumnUpdates(cols, STATUSES[1]) \o ColumnUpdates(cols, STATUSES[2])
        \o ColumnUpdates(cols, STATUSES[3])

\* findContainer: the column that holds the task, "" when none does.
findContainer(id, cols) ==
    IF \E s \in StatusSet : \E i \in 1..Len(cols[s]) : cols[s][i].id = id
    THEN CHOOSE s \in StatusSet : \E i \in 1..Len(cols[s]) : cols[s][i].id = id
    ELSE ""

InsertAt(list, k, t) == SubSeq(list, 1, k - 1) \o <<t>> \o SubSeq(list, k, Len(list))

\* What onDragOver has made of the columns when the drag ends: the task taken
\* out of its column and put at place k of column `to` with that status.
MoveTask(cols, id, to, k) ==
    LET from == findContainer(id, cols)
        moving == CHOOSE t \in {cols[from][i] : i \in 1..Len(cols[from])} : t.id = id
        rest == SelectSeq(cols[from], LAMBDA t : t.id # id)
        base == IF from = to THEN rest ELSE cols[to]
    IN  [s \in StatusSet |->
            IF s = to THEN InsertAt(base, k, [moving EXCEPT !.status = to])
            ELSE IF s = from THEN rest
            ELSE cols[s]]

\* The lowest refresh slot that is free.
FreeGet == CHOOSE f \in FetchIds : gets[f].pc = "idle" /\ \A g \in FetchIds : g < f => gets[g].pc # "idle"

\* The refresh slots that are free, and the layout writes in flight: a
\* request is sent while a slot is left for the re-sync of each write.
IdleGets == {f \in FetchIds : gets[f].pc = "idle"}
Writing == {w \in WriteIds : puts[w].pc # "idle"}
\* No layout write of the client is in flight.
NoWrite == Writing = {}

\* The lowest write slot that is free.
FreePut == CHOOSE w \in WriteIds : puts[w].pc = "idle" /\ \A v \in WriteIds : v < w => puts[v].pc # "idle"

\* refresh() up to its await: no request without a stored member id.
Refresh(g, memberId) ==
    IF memberId = "" THEN g
    ELSE [g EXCEPT ![FreeGet] = [IdleGet EXCEPT !.pc = "sent"]]

\* The interval's callback: no refresh while a save is going on.
PollTimer ==
    /\ ~savingRef
    /\ storedId # ""
    /\ Cardinality(IdleGets) > Cardinality(Writing)
    /\ gets' = Refresh(gets, storedId)
    /\ UNCHANGED <<tasks, projectMembers, nextId, started, reqs, projVars,
                   columns, savingRef, storedId, puts, other, dragged, add, page>>

\* A tick of the interval, counted.
Poll ==
    /\ polled < MaxPoll
    /\ PollTimer
    /\ polled' = polled + 1

\* A tick of the interval of a page that stays open: the ticks go on.
PollOn ==
    /\ PollTimer
    /\ polled' = polled

\* The board handler answers a refresh with the project's tasks, or the
\* request fails on its way.
ServeGet(f, ok) ==
    /\ gets[f].pc = "sent"
    /\ gets' = [gets EXCEPT ![f] =
          [pc |-> "back", ok |-> ok,
           tasks |-> IF ok THEN BoardTasks(tasks, BoardProject) ELSE <<>>]]
    /\ UNCHANGED <<tasks, projectMembers, nextId, started, reqs, projVars,
                   columns, savingRef, storedId, puts, other, dragged, polled, add, page>>

\* refresh() after its await, the columns left whatever the answer.
ReceiveGetUnshown(f) ==
    /\ gets[f].pc = "back"
    /\ gets' = [gets EXCEPT ![f] = IdleGet]
    /\ UNCHANGED <<tasks, projectMembers, nextId, started, reqs, projVars,
                   columns, savingRef, storedId, puts, other, dragged, polled,
                   add, page>>

\* refresh() after its await: setColumns(groupByStatus(res.tasks)), or the
\* error kept and the columns left.
ReceiveGet(f) ==
    /\ gets[f].pc = "back"
    /\ columns' = IF gets[f].ok THEN groupByStatus(gets[f].tasks) ELSE columns
    /\ gets' = [gets EXCEPT ![f] = IdleGet]
    /\ UNCHANGED <<tasks, projectMembers, nextId, started, reqs, projVars,
                   savingRef, storedId, puts, other, dragged, polled, add, page>>

\* onDragEnd over a target: the columns normalized and persistBoardLayout
\* started, up to its await.
DragEnd(id, to, k) ==
    /\ dragged < MaxDrag
    /\ \E w \in WriteIds : puts[w].pc = "idle"
    /\ Cardinality(IdleGets) > Cardinality(Writing)
    /\ findContainer(id, columns) # ""
    /\ k <= Len(MoveTask(columns, id, to, 1)[to])
    /\ LET next == normalizeOrders(MoveTask(columns, id, to, k))
       IN  /\ columns' = next
           /\ puts' = [puts EXCEPT ![FreePut] =
                 [pc |-> "sent", ok |-> FALSE, memberId |-> storedId,
                  updates |-> flattenUpdates(next)]]
    /\ savingRef' = TRUE
    /\ dragged' = dragged + 1
    /\ UNCHANGED <<tasks, projectMembers, nextId, started, reqs, projVars,
                   storedId, gets, other, polled, add, page>>

\* The layout handler up to its validation read, for the client's write.
ServePutFind(w) ==
    /\ puts[w].pc = "sent"
    /\ LET ids == ColumnIds(puts[w].updates)
           refused == \/ AuthError(BoardProject, puts[w].memberId) # ""
                      \/ TasksNotInProject(tasks, ids, BoardProject)
       IN  puts' = [puts EXCEPT ![w] =
              IF refused THEN [@ EXCEPT !.pc = "back", !.ok = FALSE]
              ELSE [@ EXCEPT !.pc = "checked"]]
    /\ UNCHANGED <<tasks, projectMembers, nextId, started, reqs, projVars,
                   columns, savingRef, storedId, gets, other, dragged, polled, add, page>>

\* The layout handler's commit, for the client's write.
ServePutCommit(w) ==
    /\ puts[w].pc = "checked"
    /\ LET res == Transaction(tasks, puts[w].updates)
       IN  /\ tasks' = res.store
           /\ puts' = [puts EXCEPT ![w] = [@ EXCEPT !.pc = "back", !.ok = res.ok]]
    /\ UNCHANGED <<projectMembers, nextId, started, reqs, projVars,
                   columns, savingRef, storedId, gets, other, dragged, polled, add, page>>

\* The write fails on its way to the server.
LosePut(w) ==
    /\ puts[w].pc = "sent"
    /\ puts' = [puts EXCEPT ![w] = [@ EXCEPT !.pc = "back", !.ok = FALSE]]
    /\ UNCHANGED <<tasks, projectMembers, nextId, started, reqs, projVars,
                   columns, savingRef, storedId, gets, other, dragged, polled, add, page>>

\* The catch of persistBoardLayout that forgets to re-sync.
RefreshForgotten(g, memberId) == g

\* The catch of persistBoardLayout: refresh().
Resync(g, memberId) == Refresh(g, memberId)

\* persistBoardLayout after its await: on a failure the re-sync, and in both
\* cases savingRef.current = false.
ReceivePut(w) ==
    /\ puts[w].pc = "back"
    /\ gets' = IF puts[w].ok THEN gets ELSE Resync(gets, storedId)
    /\ savingRef' = FALSE
    /\ puts' = [puts EXCEPT ![w] = IdlePut]
    /\ UNCHANGED <<tasks, projectMembers, nextId, started, reqs, projVars,
                   columns, storedId, other, dragged, polled, add, page>>

\* -------------------------------------------------------------- drag steps
\* What a drag is over: a task card (useSortable, id: task.id) or a column
\* (useDroppable, id: status).
Overs ==
    {[task |-> id, column |-> ""] : id \in TaskIds}
    \cup {[task |-> NoTask, column |-> s] : s \in StatusSet}

\* findContainer of the id of `over`: a status is its own container.
overContainer(over, cols) ==
    IF over.column # "" THEN over.column ELSE findContainer(over.task, cols)

\* list.findIndex((t) => t.id === id), counted from 1; 0 when no task has it.
findIndex(list, id) ==
    IF \E i \in 1..Len(list) : list[i].id = id
    THEN CHOOSE i \in 1..Len(list) :
            list[i].id = id /\ \A j \in 1..(i - 1) : list[j].id # id
    ELSE 0

\* arrayMove(list, from, to): the item taken out and put in at place `to`.
arrayMove(list, from, to) ==
    InsertAt(SubSeq(list, 1, from - 1) \o SubSeq(list, from + 1, Len(list)),
             to, list[from])

\* The move across columns that leaves the card in the column it came from.
DragOverCopies(prev, activeId, over) ==
    LET activeContainer == findContainer(activeId, prev)
        overContainer_ == overContainer(over, prev)
    IN  IF activeContainer = "" \/ overContainer_ = "" THEN prev
        ELSE LET activeIndex == findIndex(prev[activeContainer], activeId)
                 overIndex == IF over.column # "" THEN 0
                              ELSE findIndex(prev[overContainer_], over.task)
             IN  IF activeContainer = overContainer_
                 THEN IF activeIndex = 0 \/ overIndex = 0 \/ activeIndex = overIndex
                      THEN prev
                      ELSE [prev EXCEPT ![activeContainer] =
                               arrayMove(@, activeIndex, overIndex)]
                 ELSE LET moving == prev[activeContainer][activeIndex]
                          insertAt == IF overIndex > 0 THEN overIndex
                                      ELSE Len(prev[overContainer_]) + 1
                      IN  [prev EXCEPT ![overContainer_] =
                              InsertAt(@, insertAt,
                                       [moving EXCEPT !.status = overContainer_])]

\* The updater of onDragOver: within a column the card takes the place of the
\* card it is over; across columns it leaves its column and is put, with the
\* new column's status, at the place of the card it is over or at the end.
DragOverColumns(prev, activeId, over) ==
    LET activeContainer == findContainer(activeId, prev)
        overContainer_ == overContainer(over, prev)
    IN  IF activeContainer = "" \/ overContainer_ = "" THEN prev
        ELSE LET activeIndex == findIndex(prev[activeContainer], activeId)
                 overIndex == IF over.column # "" THEN 0
                              ELSE findIndex(prev[overContainer_], over.task)
             IN  IF activeContainer = overContainer_
                 THEN IF activeIndex = 0 \/ overIndex = 0 \/ activeIndex = overIndex
                      THEN prev
                      ELSE [prev EXCEPT ![activeContainer] =
                               arrayMove(@, activeIndex, overIndex)]
                 ELSE LET moving == prev[activeContainer][activeIndex]
                          nextActive == SelectSeq(prev[activeContainer],
                                                  LAMBDA t : t.id # activeId)
                          insertAt == IF overIndex > 0 THEN overIndex
                                      ELSE Len(prev[overContainer_]) + 1
                      IN  [prev EXCEPT ![activeContainer] = nextActive,
                                       ![overContainer_] =
                              InsertAt(@, insertAt,
                                       [moving EXCEPT !.status = overContainer_])]

\* onDragOver with a target: setColumns with the updater.
onDragOver(activeId, over) ==
    /\ dragged < MaxDrag
    /\ columns' = DragOverColumns(columns, activeId, over)
    /\ UNCHANGED <<tasks, projectMembers, nextId, started, reqs, projVars,
                   savingRef, storedId, gets, puts, other, dragged, polled, add, page>>

\* onDragEnd: the columns normalized and, when the drag ends over a target,
\* persistBoardLayout started, up to its await.
onDragEnd(hasOver) ==
    /\ dragged < MaxDrag
    /\ LET next == normalizeOrders(columns)
       IN  /\ columns' = next
           /\ IF hasOver
              THEN /\ \E w \in WriteIds : puts[w].pc = "idle"
                   /\ Cardinality(IdleGets) > Cardinality(Writing)
                   /\ puts' = [puts EXCEPT ![FreePut] =
                         [pc |-> "sent", ok |-> FALSE, memberId |-> storedId,
                          updates |-> flattenUpdates(next)]]
                   /\ savingRef' = TRUE
              ELSE UNCHANGED <<puts, savingRef>>
    /\ dragged' = dragged + 1
    /\ UNCHANGED <<tasks, projectMembers, nextId, started, reqs, projVars,
                   storedId, gets, other, polled, add, page>>

\* clearMemberId, called by the start page open in another tab.
ClearMemberId ==
    /\ storedId # ""
    /\ storedId' = ""
    /\ UNCHANGED <<tasks, projectMembers, nextId, started, reqs, projVars,
                   columns, savingRef, gets, puts, other, dragged, polled, add, page>>

\* Another member's create-task request: the read of the largest order.
OtherMax(status) ==
    /\ other.pc = "idle" /\ other.count < MaxAppend
    /\ other' = [other EXCEPT !.pc = "read", !.status = status,
                              !.order = AppendOrder(tasks, BoardProject, status)]
    /\ UNCHANGED <<tasks, projectMembers, nextId, started, reqs, projVars,
                   columns, savingRef, storedId, gets, puts, dragged, polled, add, page>>

\* Another member's create-task request: the insert.
OtherCreate ==
    /\ other.pc = "read"
    /\ tasks' = [id \in DOMAIN tasks \cup {nextId} |->
                    IF id = nextId
                    THEN NewTask([projectId |-> BoardProject, title |-> "t1",
                                  status |-> other.status, order |-> other.order,
                                  assigneeId |-> Null, memberId |-> BoardMember],
                                 nextId)
                    ELSE tasks[id]]
    /\ nextId' = nextId + 1
    /\ other' = [other EXCEPT !.pc = "idle", !.count = @ + 1]
    /\ UNCHANGED <<projectMembers, started, reqs, projVars,
                   columns, savingRef, storedId, gets, puts, dragged, polled, add, page>>

\* addTask up to its await: the create-task request sent with the stored id.
AddTask(status) ==
    /\ add.pc = "idle" /\ add.count < MaxAdd
    /\ add' = [add EXCEPT !.pc = "sent", !.memberId = storedId, !.status = status]
    /\ UNCHANGED <<tasks, projectMembers, nextId, started, reqs, projVars,
                   columns, savingRef, storedId, gets, puts, other, dragged, polled, page>>

\* The create-task handler up to its aggregate read, for the client's request
\* (a title and a status, no assignee).
ServeAddMax ==
    /\ add.pc = "sent"
    /\ add' = IF AuthError(BoardProject, add.memberId) # ""
              THEN [add EXCEPT !.pc = "back", !.ok = FALSE]
              ELSE [add EXCEPT !.pc = "read",
                               !.order = AppendOrder(tasks, BoardProject, add.status)]
    /\ UNCHANGED <<tasks, projectMembers, nextId, started, reqs, projVars,
                   columns, savingRef, storedId, gets, puts, other, dragged, polled, page>>

\* The create-task handler's insert, for the client's request: the response
\* carries the row.
ServeAddCreate ==
    /\ add.pc = "read"
    /\ tasks' = [id \in DOMAIN tasks \cup {nextId} |->
                    IF id = nextId
                    THEN NewTask([projectId |-> BoardProject, title |-> "t1",
                                  status |-> add.status, order |-> add.order,
                                  assigneeId |-> Null, memberId |-> add.memberId],
                                 nextId)
                    ELSE tasks[id]]
    /\ nextId' = nextId + 1
    /\ add' = [add EXCEPT !.pc = "back", !.ok = TRUE,
                          !.task = Selected(tasks', nextId)]
    /\ UNCHANGED <<projectMembers, started, reqs, projVars,
                   columns, savingRef, storedId, gets, puts, other, dragged, polled, page>>

\* addTask after its await: the created task put at the end of its column
\* and the columns normalized, or the error kept and the columns left.
ReceiveAdd ==
    /\ add.pc = "back"
    /\ columns' = IF add.ok
                  THEN normalizeOrders([columns EXCEPT ![add.status] = Append(@, add.task)])
                  ELSE columns
    /\ add' = [IdleAdd EXCEPT !.count = add.count + 1]
    /\ UNCHANGED <<tasks, projectMembers, nextId, started, reqs, projVars,
                   savingRef, storedId, gets, puts, other, dragged, polled, page>>

\* --------------------------------------------------------------- start page
\* The start page of the same browser.  Its request is served by the project
\* handlers; it is the only project request of the run, so it takes slot 1.
\* `held` is the member id the browser stored when the button was pressed,
\* `ticket` the number of requests the server had seen.
IdlePage == [pc |-> "idle", kind |-> "", held |-> "", ticket |-> 0, last |-> ""]

\* The page's request has reached its handler.
PageArrived == started > page.ticket

\* createProject / joinProject up to the await: busy, clearMemberId(), apiFetch.
PageSubmit(kind) ==
    /\ page.pc = "idle"
    /\ started < MaxReq
    /\ \A r \in ReqIds : ProjectFree(r)
    /\ page' = [pc |-> "sent", kind |-> kind, held |-> storedId,
                ticket |-> started, last |-> ""]
    /\ storedId' = ""
    /\ UNCHANGED <<tasks, projectMembers, nextId, started, reqs, projVars,
                   columns, savingRef, gets, puts, other, add, dragged, polled>>

\* createProject / joinProject after the await: setMemberId(res.member.id) and
\* the board opened, or the catch, which sets the error; then busy is reset.
PageReceive ==
    /\ page.pc = "sent" /\ PageArrived
    /\ preqs[1].pc = "done"
    /\ storedId' = IF preqs[1].resp = "OK" THEN preqs[1].memberId ELSE storedId
    /\ page' = [page EXCEPT !.pc = "idle",
                            !.last = IF preqs[1].resp = "OK" THEN "ok" ELSE "failed"]
    /\ UNCHANGED <<tasks, projectMembers, nextId, started, reqs, projVars,
                   columns, savingRef, gets, puts, other, add, dragged, polled>>

\* The request or its response is lost: fetch rejects and the catch runs.
PageLose ==
    /\ page.pc = "sent"
    /\ page' = [page EXCEPT !.pc = "idle", !.last = "failed"]
    /\ UNCHANGED <<tasks, projectMembers, nextId, started, reqs, projVars,
                   columns, savingRef, storedId, gets, puts, other, add,
                   dragged, polled>>

\* --------------------------------------------------------- store contention
\* prisma.task.create throws (a deadlock, a write conflict, a pool timeout):
\* nothing in POST catches it, the handler ends and the framework answers 500.
PostConflict(r) ==
    /\ reqs[r].op = "POST" /\ reqs[r].pc = "create"
    /\ reqs' = [reqs EXCEPT ![r] = Done(reqs[r], "INTERNAL_ERROR")]
    /\ UNCHANGED <<tasks, projectMembers, projVars, clientVars, nextId, started>>

\* prisma.$transaction throws for the same reasons and is rolled back: nothing
\* in PUT catches it either.
PutConflict(r) ==
    /\ reqs[r].op = "PUT" /\ reqs[r].pc = "commit" /\ reqs[r].batch = <<>>
    /\ reqs' = [reqs EXCEPT ![r] = Done(reqs[r], "INTERNAL_ERROR")]
    /\ UNCHANGED <<tasks, projectMembers, projVars, clientVars, nextId, started>>

\* ----------------------------------------------------------- specification
Init ==
    /\ tasks = SeedStore
    /\ projectMembers = {[projectId |-> "p1", memberId |-> "m1", role |-> "OWNER"],
                         [projectId |-> "p2", memberId |-> "m2", role |-> "OWNER"]}
    /\ nextId = Len(SeedStore) + 1
    /\ started = 0
    /\ reqs = [r \in ReqIds |-> IdleReq]
    /\ projects = SeedProjects
    /\ members = Members
    /\ preqs = [r \in ReqIds |-> IdleProjectReq]
    /\ invite = [bytes |-> <<>>, out |-> <<>>]
    /\ columns = [s \in StatusSet |-> <<>>]
    /\ savingRef = FALSE
    /\ storedId = BoardMember
    /\ gets = [f \in FetchIds |-> IF f = 1 THEN [IdleGet EXCEPT !.pc = "sent"] ELSE IdleGet]
    /\ puts = [w \in WriteIds |-> IdlePut]
    /\ other = IdleOther
    /\ add = IdleAdd
    /\ page = IdlePage
    /\ dragged = 0
    /\ polled = 0

\* The steps of the handlers, their inputs drawn from the request alphabets.
StartPost ==
    \E r \in ReqIds, m \in Callers, p \in UrlProjects, b \in PostBodies :
        PostMax(r, m, p, b)
EndPost == \E r \in ReqIds : PostCreate(r)
Get == \E r \in ReqIds, m \in Callers, p \in UrlProjects : GetBoard(r, m, p)
StartPut ==
    \E r \in ReqIds, m \in Callers, p \in UrlProjects, ids \in IdSeqs :
        PutFind(r, m, p, ids)
EndPut ==
    \E r \in ReqIds : \E v \in [1..Len(reqs[r].ids) -> EntryValues] :
        PutCommit(r, v)
StartPatch ==
    \E r \in ReqIds, m \in Callers, id \in TaskIds, k \in BOOLEAN :
        PatchFind(r, m, id, k)
EndPatch == \E r \in ReqIds, b \in PatchBodies : PatchUpdate(r, b)
StartDelete ==
    \E r \in ReqIds, m \in Callers, id \in TaskIds : DeleteFind(r, m, id)
EndDelete == \E r \in ReqIds : DeleteTask(r)

Next ==
    \/ StartPost
    \/ EndPost
    \/ Get
    \/ StartPut
    \/ EndPut
    \/ StartPatch
    \/ EndPatch
    \/ StartDelete
    \/ EndDelete

Spec == Init /\ [][Next]_vars

\* The project handlers: create project and join, interleaved.
StartCreate == \E r \in ReqIds, ok \in BOOLEAN : CreateMember(r, ok)
TryCreate == \E r \in ReqIds, code \in InviteCodes : CreateProject(r, code)
StartJoin == \E r \in ReqIds, code \in JoinCodes, ok \in BOOLEAN : JoinFind(r, code, ok)
EndJoin == \E r \in ReqIds : JoinCreate(r)

NextProject ==
    \/ StartCreate
    \/ TryCreate
    \/ StartJoin
    \/ EndJoin

SpecProject == Init /\ [][NextProject]_vars

\* A call of generateInviteCode.
NextCode == \E bytes \in ByteSeqs : GenerateCode(bytes)

SpecCode == Init /\ [][NextCode]_vars

\* The start page and the project handlers serving its request.
PageWaits(kind) == page.pc = "sent" /\ page.kind = kind /\ ~PageArrived

NextStart ==
    \/ \E kind \in {"create", "join"} : PageSubmit(kind)
    \/ StartCreate /\ PageWaits("create")
    \/ TryCreate
    \/ StartJoin /\ PageWaits("join")
    \/ EndJoin
    \/ PageReceive
    \/ PageLose

SpecStart == Init /\ [][NextStart]_vars

\* The task handlers that write and the project handlers together.  The
\* callers, assignees and projects of the task requests include the first
\* member and the first project a project request creates.
NewMember == MemberIds[Cardinality(Members) + 1]
NewProject == ProjectIds[Cardinality(SeedProjects) + 1]
AnyCallers == Callers \cup {NewMember}
AnyProjects == UrlProjects \cup {NewProject}
AnyPostBodies ==
    [title : {"t1"}, status : {Undefined},
     assigneeId : Members \cup {NewMember, Undefined}]
AnyPatchBodies ==
    {[EmptyPatch EXCEPT !.assigneeId = a] : a \in Members \cup {NewMember, Null}}
        \cup {[EmptyPatch EXCEPT !.status = "DONE"]}
AnyIdSeqs == {<<id>> : id \in TaskIds} \cup {<<>>}

NextAll ==
    \/ \E r \in ReqIds, m \in AnyCallers, p \in AnyProjects, b \in AnyPostBodies :
          PostMax(r, m, p, b)
    \/ EndPost
    \/ \E r \in ReqIds, m \in AnyCallers, p \in AnyProjects, ids \in AnyIdSeqs :
          PutFind(r, m, p, ids)
    \/ EndPut
    \/ \E r \in ReqIds, m \in AnyCallers, id \in TaskIds : PatchFind(r, m, id, TRUE)
    \/ \E r \in ReqIds, b \in AnyPatchBodies : PatchUpdate(r, b)
    \/ \E r \in ReqIds, m \in AnyCallers, id \in TaskIds : DeleteFind(r, m, id)
    \/ EndDelete
    \/ StartCreate
    \/ TryCreate
    \/ StartJoin
    \/ EndJoin

SpecAll == Init /\ [][NextAll]_vars

\* The board client, the handlers serving it, and the other member.
Drag ==
    \E id \in TaskIds, to \in StatusSet, k \in 1..(Len(SeedStore) + MaxAppend) :
        DragEnd(id, to, k)

NextClient ==
    \/ Poll
    \/ \E f \in FetchIds, ok \in BOOLEAN : ServeGet(f, ok)
    \/ \E f \in FetchIds : ReceiveGet(f)
    \/ Drag
    \/ \E w \in WriteIds : ServePutFind(w)
    \/ \E w \in WriteIds : ServePutCommit(w)
    \/ \E w \in WriteIds : LosePut(w)
    \/ \E w \in WriteIds : ReceivePut(w)
    \/ ClearMemberId
    \/ \E s \in StatusSet : OtherMax(s)
    \/ OtherCreate

SpecClient == Init /\ [][NextClient]_vars

\* The board client adding a task while it polls and the user drags.
NextAdding ==
    \/ \E s \in StatusSet : AddTask(s)
    \/ ServeAddMax
    \/ ServeAddCreate
    \/ ReceiveAdd
    \/ Poll
    \/ \E f \in FetchIds, ok \in BOOLEAN : ServeGet(f, ok)
    \/ \E f \in FetchIds : ReceiveGet(f)
    \/ Drag
    \/ \E w \in WriteIds : ServePutFind(w)
    \/ \E w \in WriteIds : ServePutCommit(w)
    \/ \E w \in WriteIds : ReceivePut(w)

SpecAdding == Init /\ [][NextAdding]_vars

\* The board client with the drag handlers as they are called: onDragOver
\* for each card or column the drag passes, then onDragEnd; the page polls
\* and the layout writes are served meanwhile.
DragOver == \E id \in TaskIds, over \in Overs : onDragOver(id, over)
DragStop == \E hasOver \in BOOLEAN : onDragEnd(hasOver)

NextDrag ==
    \/ DragOver
    \/ DragStop
    \/ Poll
    \/ \E f \in FetchIds, ok \in BOOLEAN : ServeGet(f, ok)
    \/ \E f \in FetchIds : ReceiveGet(f)
    \/ \E w \in WriteIds : ServePutFind(w)
    \/ \E w \in WriteIds : ServePutCommit(w)
    \/ \E w \in WriteIds : ReceivePut(w)

SpecDrag == Init /\ [][NextDrag]_vars

\* The board client on a page that stays open and visible, with its member
\* id stored: the interval goes on ticking, a refresh that is sent is
\* answered, not every answer is a failure, and an answer is handled.  The
\* writers are the user's drags and the other member, who adds to DONE.
NextOpen ==
    \/ PollOn
    \/ \E f \in FetchIds, ok \in BOOLEAN : ServeGet(f, ok)
    \/ \E f \in FetchIds : ReceiveGet(f)
    \/ Drag
    \/ \E w \in WriteIds : ServePutFind(w)
    \/ \E w \in WriteIds : ServePutCommit(w)
    \/ \E w \in WriteIds : LosePut(w)
    \/ \E w \in WriteIds : ReceivePut(w)
    \/ OtherMax("DONE")
    \/ OtherCreate

SpecOpen ==
    /\ Init
    /\ [][NextOpen]_vars
    /\ WF_vars(PollOn)
    /\ \A f \in FetchIds : SF_vars(ServeGet(f, TRUE)) /\ WF_vars(ReceiveGet(f))

\* Handlers one at a time: no request starts while another is in flight.
Sequential == Cardinality({r \in ReqIds : ~Free(r)}) <= 1

NextSeq ==
    \/ StartPost /\ Sequential'
    \/ EndPost /\ Sequential'
    \/ Get /\ Sequential'
    \/ StartPut /\ Sequential'
    \/ EndPut /\ Sequential'
    \/ StartPatch /\ Sequential'
    \/ EndPatch /\ Sequential'
    \/ StartDelete /\ Sequential'
    \/ EndDelete /\ Sequential'

SpecSeq == Init /\ [][NextSeq]_vars

\* Create task and board layout over a store under contention: the insert
\* and the commit can fail.
FailPost == \E r \in ReqIds : PostConflict(r)
FailPut == \E r \in ReqIds : PutConflict(r)

NextContended ==
    \/ StartPost
    \/ EndPost
    \/ FailPost
    \/ StartPut
    \/ EndPut
    \/ FailPut

SpecContended == Init /\ [][NextContended]_vars

\* ------------------------------------------------------------------ claims
\* This step starts a request `op` in slot r (and runs its first step).
StartedBy(r, op) == started' = started + 1 /\ CanStart(r) /\ reqs'[r].op = op

\* This step is the step of slot r's request `op` at `pc`.
Stepped(r, op, pc) == reqs[r].op = op /\ reqs[r].pc = pc /\ reqs'[r] # reqs[r]

Ended(r, op, code) == reqs[r].op = op /\ reqs[r].pc = "done" /\ reqs[r].resp = code

\* Two appends to the same partition whose windows, from the read of the
\* largest order to the insert, overlap.
AppendsRacing(a, b) ==
    /\ Ended(a, "POST", "OK") /\ Ended(b, "POST", "OK")
    /\ reqs[a].projectId = reqs[b].projectId /\ reqs[a].status = reqs[b].status
    /\ reqs[a].readId <= reqs[b].taskId /\ reqs[b].readId <= reqs[a].taskId

\* C1: two create-task requests on the same (project, status) partition that
\* run concurrently give their tasks different order values.
C1_ConcurrentAppendsDistinct ==
    \A a, b \in ReqIds :
        a # b /\ AppendsRacing(a, b) => reqs[a].order # reqs[b].order

\* Some listed id is no task, or a task of another project.
SomeIdInvalid(store, ids, projectId) ==
    \E i \in 1..Len(ids) :
        ids[i] \notin DOMAIN store \/ store[ids[i]].projectId # projectId

\* C2: a layout request of a project member whose batch lists an id that is
\* no task or a task of another project than the URL's is rejected with
\* TASKS_NOT_IN_PROJECT and changes no row of the store.
C2_InvalidIdRejectsBatch ==
    [][\A r \in ReqIds :
          /\ StartedBy(r, "PUT")
          /\ reqs'[r].resp \notin {"MISSING_MEMBER_ID", "FORBIDDEN", "INVALID_BODY"}
          /\ SomeIdInvalid(tasks, reqs'[r].ids, reqs'[r].projectId)
          => /\ reqs'[r].pc = "done"
             /\ reqs'[r].resp = "TASKS_NOT_IN_PROJECT"
             /\ tasks' = tasks]_vars

\* A layout request was rejected for a batch of a task of the project and a
\* task of another project, which are both still in the store.
C2_Witness ==
    \E r \in ReqIds :
        /\ Ended(r, "PUT", "TASKS_NOT_IN_PROJECT")
        /\ Len(reqs[r].ids) = 2
        /\ \A i \in 1..2 : reqs[r].ids[i] \in DOMAIN tasks
        /\ tasks[reqs[r].ids[1]].projectId = reqs[r].projectId
        /\ tasks[reqs[r].ids[2]].projectId # reqs[r].projectId

\* Every entry of the batch is in the store as the batch has it.
AllWritten(store, batch) ==
    \A i \in 1..Len(batch) :
        /\ batch[i].id \in DOMAIN store
        /\ store[batch[i].id].status = batch[i].status
        /\ store[batch[i].id].order = batch[i].order

\* C3: the commit of a layout batch is one step that either writes every
\* (status, order) pair of the batch and answers ok, or, when a listed task
\* is gone, writes none and fails; no step leaves a part of the batch
\* written.
C3_CommitAllOrNothing ==
    [][\A r \in ReqIds :
          Stepped(r, "PUT", "commit")
          => /\ reqs'[r].pc = "done"
             /\ \/ reqs'[r].resp = "OK" /\ AllWritten(tasks', reqs'[r].batch)
                \/ reqs'[r].resp = "INTERNAL_ERROR" /\ tasks' = tasks]_vars

\* A layout request of two entries failed at its commit, one of its tasks
\* having been deleted after the validation, and the other task does not
\* have the batch's values.
C3_Witness ==
    \E r \in ReqIds :
        /\ Ended(r, "PUT", "INTERNAL_ERROR")
        /\ Len(reqs[r].batch) = 2
        /\ \E i \in 1..2 :
              LET e == reqs[r].batch[i]
              IN  /\ e.id \in DOMAIN tasks
                  /\ tasks[e.id].status # e.status \/ tasks[e.id].order # e.order

\* A layout commit has written some entries of its batch and not yet the rest.
PartlyCommitted(w) ==
    reqs[w].op = "PUT" /\ reqs[w].pc = "commit" /\ reqs[w].pending # <<>>

\* C4: a board fetch returns the project's tasks as the store holds them at
\* its read, and at that read no layout batch is partly committed: the list
\* shows all of a batch's updates or none.
C4_FetchSeesNoPartialBatch ==
    [][\A r \in ReqIds :
          StartedBy(r, "GET") /\ reqs'[r].resp = "OK"
          => /\ \A w \in ReqIds : ~PartlyCommitted(w)
             /\ Len(reqs'[r].result) =
                   Cardinality({id \in DOMAIN tasks :
                                   tasks[id].projectId = reqs'[r].projectId})
             /\ \A i \in 1..Len(reqs'[r].result) :
                   LET t == reqs'[r].result[i]
                   IN  /\ t.id \in DOMAIN tasks
                       /\ tasks[t.id].projectId = reqs'[r].projectId
                       /\ t.status = tasks[t.id].status
                       /\ t.order = tasks[t.id].order]_vars

\* A board was fetched while a layout request of two entries was between its
\* validation and its commit.
C4_Witness ==
    \E r, w \in ReqIds :
        /\ Ended(r, "GET", "OK") /\ Len(reqs[r].result) = 2
        /\ reqs[w].op = "PUT" /\ reqs[w].pc = "commit" /\ Len(reqs[w].ids) = 2
        /\ reqs[w].projectId = reqs[r].projectId

\* The batch lists every task of the (non-empty) partition.
Covers(store, projectId, status, batch) ==
    /\ Partition(store, projectId, status) # {}
    /\ Partition(store, projectId, status) \subseteq
          {batch[i].id : i \in 1..Len(batch)}

NoTies(store, projectId, status) ==
    \A a, b \in Partition(store, projectId, status) :
        a # b => store[a].order # store[b].order

\* The batch gives its entries of this status pairwise different orders.
DistinctOrders(batch, status) ==
    \A i, j \in 1..Len(batch) :
        i # j /\ batch[i].status = status /\ batch[j].status = status
        => batch[i].order # batch[j].order

\* C5 as claimed: after any accepted layout request whose batch lists every
\* task of a partition, no two tasks of the partition have the same order.
C5_AnyAcceptedLayoutHasNoTies ==
    [][\A r \in ReqIds, s \in StatusSet :
          /\ Stepped(r, "PUT", "commit") /\ reqs'[r].resp = "OK"
          /\ Covers(tasks', reqs[r].projectId, s, reqs'[r].batch)
          => NoTies(tasks', reqs[r].projectId, s)]_vars

\* C5 as amended: after an accepted layout request whose batch lists every
\* task of a partition and gives the entries of that status pairwise
\* different orders, no two tasks of the partition have the same order.
C5_DistinctLayoutHasNoTies ==
    [][\A r \in ReqIds, s \in StatusSet :
          /\ Stepped(r, "PUT", "commit") /\ reqs'[r].resp = "OK"
          /\ Covers(tasks', reqs[r].projectId, s, reqs'[r].batch)
          /\ DistinctOrders(reqs'[r].batch, s)
          => NoTies(tasks', reqs[r].projectId, s)]_vars

\* An accepted layout request moved two tasks of different orders to DOING
\* with orders 1 and 0, and they are the DOING partition.
C5_Witness ==
    \E r \in ReqIds :
        /\ Ended(r, "PUT", "OK") /\ Len(reqs[r].batch) = 2
        /\ reqs[r].batch[1].status = "DOING" /\ reqs[r].batch[2].status = "DOING"
        /\ reqs[r].batch[1].order = 1 /\ reqs[r].batch[2].order = 0
        /\ Partition(tasks, reqs[r].projectId, "DOING") =
              {reqs[r].batch[1].id, reqs[r].batch[2].id}
        /\ NoTies(tasks, reqs[r].projectId, "DOING")

\* C6: the insert of a create-task request gives the new task the order
\* 1 + (largest order of the tasks then in its partition), and 0 when the
\* partition is empty.
C6_AppendOrderAtInsert ==
    [][\A r \in ReqIds :
          Stepped(r, "POST", "create")
          => LET row == tasks'[nextId]
                 part == Partition(tasks, row.projectId, row.status)
             IN  /\ part = {} => row.order = 0
                 /\ part # {} => /\ \A id \in part : tasks[id].order < row.order
                                 /\ \E id \in part : tasks[id].order + 1 = row.order]_vars

\* The column of the status, as the client builds it from a board fetch.
Column(store, projectId, status) ==
    groupByStatus(BoardTasks(store, projectId))[status]

\* C7: with no concurrent writers, the task a create-task request inserts is
\* the last of its status column in the columns built from the board, also
\* when the partition has gaps or equal orders.
C7_AppendedTaskIsLast ==
    [][\A r \in ReqIds :
          Stepped(r, "POST", "create")
          => LET col == Column(tasks', reqs[r].projectId, reqs[r].status)
             IN  Len(col) > 0 /\ col[Len(col)].id = nextId]_vars

\* A task was appended to a partition in which two other tasks have the same
\* order.
C7_Witness ==
    \E r \in ReqIds :
        /\ Ended(r, "POST", "OK") /\ reqs[r].taskId \in DOMAIN tasks
        /\ LET col == Column(tasks, reqs[r].projectId, reqs[r].status)
           IN  /\ Len(col) = 3 /\ col[3].id = reqs[r].taskId
               /\ col[1].order = col[2].order

\* The entries of the batch with this status, by increasing order.
Submitted(batch, status) ==
    ColumnIds(SortByOrder(SelectSeq(batch, LAMBDA e : e.status = status)))

\* C8: after an accepted layout request that lists every task of a partition
\* with pairwise different orders, the column built from the board lists the
\* partition's tasks by increasing submitted order.
C8_ColumnFollowsSubmittedOrder ==
    [][\A r \in ReqIds, s \in StatusSet :
          /\ Stepped(r, "PUT", "commit") /\ reqs'[r].resp = "OK"
          /\ Covers(tasks', reqs[r].projectId, s, reqs'[r].batch)
          /\ DistinctOrders(reqs'[r].batch, s)
          => ColumnIds(Column(tasks', reqs[r].projectId, s)) =
                Submitted(reqs'[r].batch, s)]_vars

\* The scenario: tasks 1 (order 0) and 2 (order 1) of TODO, the layout
\* [{2, TODO, 0}, {1, TODO, 1}] is accepted, and the TODO column is [2, 1].
C8_Witness ==
    \E r \in ReqIds :
        /\ Ended(r, "PUT", "OK")
        /\ reqs[r].batch = <<[id |-> 2, status |-> "TODO", order |-> 0],
                             [id |-> 1, status |-> "TODO", order |-> 1]>>
        /\ ColumnIds(Column(tasks, "p1", "TODO")) = <<2, 1>>

\* C9: a patch request of a project member whose assigneeId is a member id
\* that is not in the task's project is rejected with ASSIGNEE_NOT_IN_PROJECT
\* and leaves every row of the store as it was, whatever other fields the
\* body carries.
C9_ForeignAssigneeRejected ==
    [][\A r \in ReqIds :
          /\ Stepped(r, "PATCH", "update")
          /\ IsMember(reqs[r].projectId, reqs[r].memberId)
          /\ reqs'[r].patch.assigneeId \in Members
          /\ ~IsMember(reqs[r].projectId, reqs'[r].patch.assigneeId)
          => /\ reqs'[r].pc = "done"
             /\ reqs'[r].resp = "ASSIGNEE_NOT_IN_PROJECT"
             /\ tasks' = tasks]_vars

\* A patch carrying all six fields, its assignee not in the task's project,
\* was rejected, and the task has none of the body's values.
C9_Witness ==
    \E r \in ReqIds :
        /\ Ended(r, "PATCH", "ASSIGNEE_NOT_IN_PROJECT")
        /\ reqs[r].patch \in PatchFull
        /\ reqs[r].taskId \in DOMAIN tasks
        /\ LET row == tasks[reqs[r].taskId]
           IN  /\ row.title # reqs[r].patch.title
               /\ row.description # reqs[r].patch.description
               /\ row.status # reqs[r].patch.status
               /\ row.dueDate # reqs[r].patch.dueDate
               /\ row.assigneeId # reqs[r].patch.assigneeId

\* C10: the delete of a task by a member of its project removes that row and
\* no other and leaves every other row as it was (no order is renumbered); a
\* deleted task does not come back, and a board fetch returns only tasks that
\* are in the store.
C10_DeleteRemovesOnlyTheTask ==
    [][/\ \A r \in ReqIds :
             /\ Stepped(r, "DELETE", "delete")
             /\ IsMember(reqs[r].projectId, reqs[r].memberId)
             /\ reqs[r].taskId \in DOMAIN tasks
             => /\ reqs'[r].resp = "OK"
                /\ DOMAIN tasks' = DOMAIN tasks \ {reqs[r].taskId}
                /\ \A id \in DOMAIN tasks' : tasks'[id] = tasks[id]
       /\ \A id \in 1..(nextId - 1) : id \notin DOMAIN tasks => id \notin DOMAIN tasks'
       /\ \A r \in ReqIds :
             StartedBy(r, "GET")
             => \A i \in 1..Len(reqs'[r].result) :
                   reqs'[r].result[i].id \in DOMAIN tasks]_vars

\* Task 1 (order 0) was deleted by a member and task 2 keeps its order 1.
C10_Witness ==
    \E r \in ReqIds :
        /\ Ended(r, "DELETE", "OK") /\ reqs[r].pc = "done"
        /\ reqs[r].taskId = 1 /\ 1 \notin DOMAIN tasks
        /\ IsMember(reqs[r].projectId, reqs[r].memberId)
        /\ 2 \in DOMAIN tasks /\ tasks[2].order = 1 /\ tasks[2].status = "TODO"

\* C11: the columns built by groupByStatus from a fetched board hold, each,
\* the fetched tasks of its status, by ascending order and, among tasks of
\* the same order, by ascending creation time.
C11_ColumnsByOrderThenCreation ==
    \A r \in ReqIds :
        Ended(r, "GET", "OK")
        => \A s \in StatusSet :
              LET col == groupByStatus(reqs[r].result)[s]
                  fetched == {reqs[r].result[i] : i \in 1..Len(reqs[r].result)}
              IN  /\ {col[i] : i \in 1..Len(col)} = {t \in fetched : t.status = s}
                  /\ Len(col) = Cardinality({t \in fetched : t.status = s})
                  /\ \A i, j \in 1..Len(col) :
                        i < j => \/ col[i].order < col[j].order
                                 \/ /\ col[i].order = col[j].order
                                    /\ col[i].createdAt <= col[j].createdAt

\* A fetched board has a column with two tasks of the same order.
C11_Witness ==
    \E r \in ReqIds :
        /\ Ended(r, "GET", "OK")
        /\ \E s \in StatusSet :
              LET col == groupByStatus(reqs[r].result)[s]
              IN  Len(col) >= 2 /\ col[1].order = col[2].order

\* The project a request is about: the URL's, or the project of its task.
TargetProject(req, store) ==
    IF req.projectId # "" THEN req.projectId
    ELSE IF req.taskId \in DOMAIN store THEN store[req.taskId].projectId
    ELSE ""

\* The request's caller is no member of the project it is about.
Outsider(req, store) ==
    /\ TargetProject(req, store) # ""
    /\ ~IsMember(TargetProject(req, store), req.memberId)

\* The answer of the identity and membership checks to an outsider.
Refusal(req) == IF req.memberId = "" THEN "MISSING_MEMBER_ID" ELSE "FORBIDDEN"

\* C12 as claimed: a step of a request whose caller is no member of the
\* project it is about changes no task and returns no board, and the request
\* ends with FORBIDDEN (MISSING_MEMBER_ID when it has no member id).
C12_OutsiderGetsForbidden ==
    [][\A r \in ReqIds :
          reqs'[r] # reqs[r] /\ Outsider(reqs'[r], tasks)
          => /\ tasks' = tasks
             /\ reqs'[r].result = <<>>
             /\ reqs'[r].pc = "done" => reqs'[r].resp = Refusal(reqs'[r])]_vars

\* C12 as amended: a step of a request whose caller is no member of the
\* project it is about changes no task and returns no board, and the request
\* ends with FORBIDDEN (MISSING_MEMBER_ID when it has no member id), or, for
\* a patch with a member id and an invalid body, with INVALID_BODY.
C12_OutsiderIsRejected ==
    [][\A r \in ReqIds :
          reqs'[r] # reqs[r] /\ Outsider(reqs'[r], tasks)
          => /\ tasks' = tasks
             /\ reqs'[r].result = <<>>
             /\ reqs'[r].pc = "done"
                => \/ reqs'[r].resp = Refusal(reqs'[r])
                   \/ /\ reqs'[r].op = "PATCH" /\ reqs'[r].memberId # ""
                      /\ reqs'[r].resp = "INVALID_BODY"]_vars

\* A delete of an existing task and a layout request were both refused with
\* FORBIDDEN and the store is as it was.
C12_Witness ==
    \E a, b \in ReqIds :
        /\ a # b
        /\ Ended(a, "DELETE", "FORBIDDEN") /\ reqs[a].taskId \in DOMAIN tasks
        /\ Ended(b, "PUT", "FORBIDDEN") /\ tasks = SeedStore

\* This step is the step of slot r's project request `op` at `pc`.
ProjectStepped(r, op, pc) ==
    preqs[r].op = op /\ preqs[r].pc = pc /\ preqs'[r] # preqs[r]

ProjectEnded(r, op, code) ==
    preqs[r].op = op /\ preqs[r].pc = "done" /\ preqs[r].resp = code

OwnersOf(rows, projectId) ==
    {pm \in rows : pm.projectId = projectId /\ pm.role = "OWNER"}

\* C13: every project has exactly one membership with role OWNER; the step
\* that creates a project adds that one membership, for the member its
\* request created; the step of a join adds one membership with role MEMBER;
\* and no step removes or changes a membership.
C13_OneOwnerTheCreator ==
    [][/\ \A p \in projects : Cardinality(OwnersOf(projectMembers, p.id)) = 1
       /\ \A p \in projects' : Cardinality(OwnersOf(projectMembers', p.id)) = 1
       /\ projectMembers \subseteq projectMembers'
       /\ \A r \in ReqIds :
             /\ preqs'[r] # preqs[r] /\ preqs'[r].op = "CREATE"
                /\ preqs'[r].pc = "project" /\ preqs[r].pc # "project"
                => preqs'[r].memberId \in members' \ members
             /\ ProjectStepped(r, "CREATE", "project") /\ projects' # projects
                => /\ projects' \ projects =
                         {[id |-> preqs'[r].projectId,
                           inviteCode |-> preqs'[r].inviteCode]}
                   /\ projectMembers' \ projectMembers =
                         {[projectId |-> preqs'[r].projectId,
                           memberId |-> preqs[r].memberId, role |-> "OWNER"]}
             /\ ProjectStepped(r, "JOIN", "join")
                => /\ projects' = projects
                   /\ projectMembers' \ projectMembers =
                         {[projectId |-> preqs[r].projectId,
                           memberId |-> preqs'[r].memberId, role |-> "MEMBER"]}
                   /\ preqs'[r].memberId \in members' \ members]_vars

\* A project created in this run was joined by its invite code: it has its
\* creator as its one OWNER and the joiner as MEMBER.
C13_Witness ==
    \E b \in ReqIds :
        /\ ProjectEnded(b, "JOIN", "OK")
        /\ preqs[b].projectId \notin {p.id : p \in SeedProjects}
        /\ [projectId |-> preqs[b].projectId, memberId |-> preqs[b].memberId,
            role |-> "MEMBER"] \in projectMembers
        /\ \E m \in members \ (Members \cup {preqs[b].memberId}) :
              OwnersOf(projectMembers, preqs[b].projectId) =
                 {[projectId |-> preqs[b].projectId, memberId |-> m,
                   role |-> "OWNER"]}

\* The projects whose creator is the member.
ProjectsOf(rows, memberId) ==
    {pm.projectId : pm \in {x \in rows : x.memberId = memberId /\ x.role = "OWNER"}}

\* C18: a project creation makes at most 8 attempts; an attempt that creates
\* the project ends the request with ok, with one project of its creator; a
\* failed attempt leaves the tables as they were and, when it is the 8th,
\* ends the request with INVITE_CODE_GENERATION_FAILED, its creator having no
\* project.
C18_EightAttemptsThenFailure ==
    [][\A r \in ReqIds :
          ProjectStepped(r, "CREATE", "project")
          => /\ preqs[r].attempt < MaxAttempts
             /\ preqs'[r].attempt = preqs[r].attempt + 1
             /\ ProjectsOf(projectMembers, preqs[r].memberId) = {}
             /\ \/ /\ preqs'[r].pc = "done" /\ preqs'[r].resp = "OK"
                   /\ Cardinality(projects') = Cardinality(projects) + 1
                   /\ ProjectsOf(projectMembers', preqs[r].memberId) =
                         {preqs'[r].projectId}
                   /\ preqs'[r].projectId \in {p.id : p \in projects'}
                \/ /\ preqs'[r].pc = "done"
                   /\ preqs'[r].resp = "INVITE_CODE_GENERATION_FAILED"
                   /\ preqs'[r].attempt = MaxAttempts
                   /\ projects' = projects /\ projectMembers' = projectMembers
                \/ /\ preqs'[r].pc = "project"
                   /\ preqs'[r].attempt < MaxAttempts
                   /\ projects' = projects /\ projectMembers' = projectMembers]_vars

\* A project creation failed after 8 attempts and its creator has no project.
C18_Witness ==
    \E r \in ReqIds :
        /\ ProjectEnded(r, "CREATE", "INVITE_CODE_GENERATION_FAILED")
        /\ preqs[r].attempt = MaxAttempts
        /\ preqs[r].memberId \in members
        /\ ProjectsOf(projectMembers, preqs[r].memberId) = {}
        /\ projects = SeedProjects

\* C19: no two rows of the Project table have the same invite code.
C19_InviteCodesUnique ==
    \A p, q \in projects : p.inviteCode = q.inviteCode => p.id = q.id

\* The position of a member id in the order the Member table gives ids.
MemberNo(memberId) == CHOOSE i \in 1..Len(MemberIds) : MemberIds[i] = memberId

\* Two project creations in flight together drew the same code: the one
\* created its project with it, the other, started earlier and still in its
\* loop, was refused it.
C19_Witness ==
    \E a, b \in ReqIds :
        /\ ProjectEnded(a, "CREATE", "OK")
        /\ preqs[b].op = "CREATE" /\ preqs[b].pc = "project"
        /\ preqs[b].attempt >= 1
        /\ preqs[b].inviteCode = preqs[a].inviteCode
        /\ MemberNo(preqs[b].memberId) < MemberNo(preqs[a].memberId)
        /\ C19_InviteCodesUnique

\* C14: the creator of every task is a member of the task's project, and the
\* assignee of every task is null or a member of the task's project.
C14_CreatorAndAssigneeAreMembers ==
    \A id \in DOMAIN tasks :
        /\ \E pm \in projectMembers :
              pm.projectId = tasks[id].projectId /\ pm.memberId = tasks[id].creatorId
        /\ \/ tasks[id].assigneeId = Null
           \/ \E pm \in projectMembers :
                 /\ pm.projectId = tasks[id].projectId
                 /\ pm.memberId = tasks[id].assigneeId

\* A member who joined in this run is the assignee of a task of the project
\* joined.
C14_Witness ==
    \E id \in DOMAIN tasks :
        /\ tasks[id].assigneeId = NewMember
        /\ [projectId |-> tasks[id].projectId, memberId |-> NewMember,
            role |-> "MEMBER"] \in projectMembers

\* A patch of a member of the task's project is at its update, the task there.
PatchReady(r) ==
    /\ reqs[r].op = "PATCH" /\ reqs[r].pc = "update"
    /\ reqs[r].taskId \in DOMAIN tasks
    /\ \E pm \in projectMembers :
          pm.projectId = reqs[r].projectId /\ pm.memberId = reqs[r].memberId

\* A layout request is at its commit, its tasks there and listed once each.
LayoutReady(r) ==
    /\ reqs[r].op = "PUT" /\ reqs[r].pc = "commit" /\ reqs[r].batch = <<>>
    /\ reqs[r].ids # <<>>
    /\ \A i, j \in 1..Len(reqs[r].ids) :
          /\ reqs[r].ids[i] \in DOMAIN tasks
          /\ i # j => reqs[r].ids[i] # reqs[r].ids[j]

\* C15: whatever the status of a task, the update of a member's patch can
\* give it each of the three statuses and each order, and the commit of a
\* member's layout can give its tasks each choice of statuses and orders:
\* the step is possible and ends the request with ok.
C15_AnyStatusInOneStep ==
    \A r \in ReqIds :
        /\ PatchReady(r)
           => /\ \A s \in StatusSet :
                    ENABLED (/\ PatchUpdate(r, [EmptyPatch EXCEPT !.status = s])
                             /\ reqs'[r].resp = "OK"
                             /\ tasks'[reqs[r].taskId].status = s)
              /\ \A o \in OrderValues :
                    ENABLED (/\ PatchUpdate(r, [EmptyPatch EXCEPT !.order = o])
                             /\ reqs'[r].resp = "OK"
                             /\ tasks'[reqs[r].taskId].order = o
                             /\ tasks'[reqs[r].taskId].status =
                                   tasks[reqs[r].taskId].status)
        /\ LayoutReady(r)
           => \A v \in [1..Len(reqs[r].ids) -> EntryValues] :
                 ENABLED (/\ PutCommit(r, v)
                          /\ reqs'[r].resp = "OK"
                          /\ AllWritten(tasks', Entries(reqs[r].ids, v)))

\* A member's patch is at its update for a task that an earlier request
\* moved to DONE.
C15_Witness ==
    \E r \in ReqIds : PatchReady(r) /\ tasks[reqs[r].taskId].status = "DONE"

\* This step is refresh() taking the response of slot f.
GetReceived(f) == gets[f].pc = "back" /\ gets'[f].pc = "idle"

\* This step is persistBoardLayout taking the response of write w.
PutReceived(w) == puts[w].pc = "back" /\ puts'[w].pc = "idle"


\* C16: no step replaces the client's columns with the result of a refresh
\* while a layout write of the client is in flight.
C16_NoRefreshResultDuringWrite ==
    [][\A f \in FetchIds :
          GetReceived(f) /\ gets[f].ok => ~savingRef /\ NoWrite]_vars

Contiguous(cols) ==
    \A s \in StatusSet : \A i \in 1..Len(cols[s]) : cols[s][i].order = i - 1

\* C20: when no write is in flight and the client takes the response of a
\* refresh that shows the store as it is, the orders of each of its columns
\* are 0..n-1, without gaps or duplicates.
C20_RefreshGivesContiguousOrders ==
    [][\A f \in FetchIds :
          /\ GetReceived(f) /\ gets[f].ok
          /\ gets[f].tasks = BoardTasks(tasks, BoardProject)
          /\ NoWrite /\ other.pc = "idle"
          => Contiguous(columns')]_vars

\* C21: the step in which the insert of a create-task request, or the commit
\* of a layout request, fails on contention is not the handler's last: the
\* request is still in flight, to try the write again.
C21_ContendedWriteIsRetried ==
    [][\A r \in ReqIds :
          PostConflict(r) \/ PutConflict(r) => reqs'[r].pc # "done"]_vars

\* This step is onDragEnd sending layout write w.
LayoutSent(w) == puts[w].pc = "idle" /\ puts'[w].pc = "sent"

\* C22: the layout a drag end submits has, for every task of the client's
\* columns, one entry and no more, with the status of the task's column and
\* the task's index in the column as order, and has no other entry.
C22_LayoutListsEachTaskOnce ==
    [][\A w \in WriteIds :
          LayoutSent(w)
          => LET updates == puts'[w].updates
             IN  /\ \A s \in StatusSet : \A i \in 1..Len(columns'[s]) :
                       \E j \in 1..Len(updates) :
                           /\ updates[j] = [id |-> columns'[s][i].id, status |-> s,
                                            order |-> i - 1]
                           /\ \A k \in 1..Len(updates) :
                                 updates[k].id = updates[j].id => k = j
                 /\ \A j \in 1..Len(updates) :
                       \E i \in 1..Len(columns'[updates[j].status]) :
                           columns'[updates[j].status][i].id = updates[j].id]_vars

\* This step ends an attempt of the start page with a failure.
PageFailed == page.pc = "sent" /\ page'.pc = "idle" /\ page'.last = "failed"

\* C23: when a create-project or join request of the start page fails, the
\* member id the browser stored before the attempt is stored after it.
C23_FailedAttemptKeepsMemberId ==
    [][PageFailed => storedId' = page.held]_vars

\* The answers of a request refused for its identity, its body, its task or
\* its caller's membership.
Rejections ==
    {"MISSING_MEMBER_ID", "INVALID_BODY", "TASK_NOT_FOUND", "TASKS_NOT_IN_PROJECT",
     "FORBIDDEN"}

\* This step is a step of the request in slot r.
StepOf(r) == reqs'[r] # reqs[r]

\* C24: the step in which a task request is rejected writes nothing, a step
\* of a request that writes the Task table ends the request with ok (so a
\* rejected request has written nothing before), and a handler that has
\* answered takes no further step: its slot changes only when a new request
\* starts.
C24_RejectedRequestWritesNothing ==
    [][\A r \in ReqIds :
          /\ StepOf(r) /\ reqs'[r].pc = "done" /\ reqs'[r].resp \in Rejections
             => /\ tasks' = tasks /\ nextId' = nextId
                /\ projectMembers' = projectMembers
          /\ StepOf(r) /\ tasks' # tasks
             => reqs'[r].pc = "done" /\ reqs'[r].resp = "OK"
          /\ StepOf(r) /\ reqs[r].pc = "done" => started' = started + 1]_vars

\* A non-member's patch was refused while a member's create-task request,
\* in flight at the same time, has written its row.
C24_Witness ==
    /\ tasks # SeedStore
    /\ \E r, q \in ReqIds :
          /\ Ended(r, "PATCH", "FORBIDDEN") /\ reqs[r].memberId = "m2"
          /\ tasks[reqs[r].taskId].projectId = "p1"
          /\ Ended(q, "POST", "OK")

\* The value a patch leaves in a field: the body's when the body has the
\* field, the row's when it has not.
Patched(inBody, absent, inRow) == IF inBody # absent THEN inBody ELSE inRow

\* C25: the update of a patch that is answered ok gives each of the six
\* fields the body's value when the body has the field and leaves it when
\* not, leaves the task's other columns, and leaves every other task and the
\* set of tasks; so a patch of the status alone keeps the order.
C25_PatchWritesItsFieldsOnly ==
    [][\A r \in ReqIds :
          Stepped(r, "PATCH", "update") /\ reqs'[r].resp = "OK"
          => LET id == reqs[r].taskId
                 body == reqs'[r].patch
                 old == tasks[id]
                 new == tasks'[id]
             IN  /\ DOMAIN tasks' = DOMAIN tasks
                 /\ \A j \in DOMAIN tasks \ {id} : tasks'[j] = tasks[j]
                 /\ new.title = Patched(body.title, Undefined, old.title)
                 /\ new.description =
                       Patched(body.description, Undefined, old.description)
                 /\ new.status = Patched(body.status, Undefined, old.status)
                 /\ new.order = Patched(body.order, NoOrder, old.order)
                 /\ new.dueDate = Patched(body.dueDate, Undefined, old.dueDate)
                 /\ new.assigneeId =
                       Patched(body.assigneeId, Undefined, old.assigneeId)
                 /\ new.projectId = old.projectId
                 /\ new.creatorId = old.creatorId
                 /\ new.createdAt = old.createdAt]_vars

\* A patch of the status alone has moved task 2 to DOING and the task still
\* has its order 1.
C25_Witness ==
    \E r \in ReqIds :
        /\ Ended(r, "PATCH", "OK")
        /\ reqs[r].patch = [EmptyPatch EXCEPT !.status = "DOING"]
        /\ reqs[r].taskId = 2 /\ 2 \in DOMAIN tasks
        /\ tasks[2].status = "DOING" /\ tasks[2].order = 1

\* The letters A-Z without I and O, and the digits 2-9.
InviteSymbols ==
    ({"A", "B", "C", "D", "E", "F", "G", "H", "I", "J", "K", "L", "M", "N", "O", "P",
      "Q", "R", "S", "T", "U", "V", "W", "X", "Y", "Z"} \ {"I", "O"})
    \cup {"2", "3", "4", "5", "6", "7", "8", "9"}

\* C26: whatever the 8 random bytes, the string generateInviteCode returns
\* has exactly 8 characters, each one of the 32 symbols A-Z without I and O
\* and 2-9.
C26_CodeIsEightSymbols ==
    invite.bytes # <<>>
    => /\ Len(invite.out) = 8
       /\ \A i \in 1..Len(invite.out) : invite.out[i] \in InviteSymbols
       /\ Cardinality(InviteSymbols) = 32

\* A call whose first byte was 255 and whose last byte was 8: the code starts
\* with the alphabet's last symbol, 9, and ends with its ninth, J.
C26_Witness ==
    /\ invite.bytes # <<>>
    /\ invite.bytes[1] = 255 /\ invite.out[1] = "9"
    /\ invite.bytes[8] = 8 /\ invite.out[8] = "J"

\* C27: savingRef.current is true in every state in which a layout write of
\* the client is in flight (so the poll timer, which reads it, starts no
\* refresh then).
C27_SavingWhileAnyWriteInFlight ==
    Writing # {} => savingRef

\* The ids a batch lists.
Listed(batch) == {batch[i].id : i \in 1..Len(batch)}

\* C28: the commit of a layout leaves the set of tasks, leaves every task
\* the batch does not list as it is, and leaves every column but status and
\* order of the tasks it lists.
C28_LayoutWritesStatusAndOrderOnly ==
    [][\A r \in ReqIds :
          Stepped(r, "PUT", "commit")
          => /\ DOMAIN tasks' = DOMAIN tasks
             /\ \A id \in DOMAIN tasks :
                   IF id \in Listed(reqs'[r].batch)
                   THEN tasks'[id] = [tasks[id] EXCEPT !.status = tasks'[id].status,
                                                       !.order = tasks'[id].order]
                   ELSE tasks'[id] = tasks[id]]_vars

\* A layout that listed task 1 alone has moved it to DONE: the task still has
\* the assignee an earlier patch gave it, and task 2 is as it was created.
C28_Witness ==
    /\ {1, 2} \subseteq DOMAIN tasks
    /\ tasks[1].status = "DONE" /\ tasks[1].assigneeId = "m1"
    /\ tasks[2] = SeedStore[2]
    /\ \E r \in ReqIds :
          /\ Ended(r, "PUT", "OK")
          /\ Listed(reqs[r].batch) = {1}
          /\ reqs[r].batch[1].status = "DONE"

\* This step starts a join request in slot r (and runs its first step).
JoinStarted(r) ==
    started' = started + 1 /\ ProjectCanStart(r) /\ preqs'[r].op = "JOIN"

\* The projects that have the invite code.
ProjectsWith(code) == {p \in projects : p.inviteCode = code}

\* C30: the first step of a join adds no row; it answers PROJECT_NOT_FOUND
\* when no project has the code, and goes on to the write, bound to the
\* project that has it, when one has.  The write adds one Member row and one
\* ProjectMember row, of the new member and that project, and answers ok.
C30_JoinAddsOneMemberOfTheProject ==
    [][\A r \in ReqIds :
          /\ JoinStarted(r)
             => /\ members' = members /\ projectMembers' = projectMembers
                /\ projects' = projects
                /\ preqs'[r].resp = "PROJECT_NOT_FOUND"
                   => ProjectsWith(preqs'[r].inviteCode) = {}
                /\ preqs'[r].pc = "join"
                   => \E p \in ProjectsWith(preqs'[r].inviteCode) :
                         preqs'[r].projectId = p.id
                /\ preqs'[r].pc = "done"
                   => preqs'[r].resp \in {"INVALID_BODY", "PROJECT_NOT_FOUND"}
          /\ ProjectStepped(r, "JOIN", "join")
             => /\ ProjectsWith(preqs[r].inviteCode) # {}
                /\ \E m \in {MemberIds[i] : i \in 1..Len(MemberIds)} :
                      /\ m \notin members
                      /\ members' = members \cup {m}
                      /\ \E pm \in projectMembers' \ projectMembers :
                            /\ projectMembers' = projectMembers \cup {pm}
                            /\ pm.memberId = m
                            /\ \E p \in ProjectsWith(preqs[r].inviteCode) :
                                  pm.projectId = p.id
                      /\ Cardinality({x \in projectMembers' : x.memberId = m}) = 1
                /\ projects' = projects
                /\ preqs'[r].pc = "done" /\ preqs'[r].resp = "OK"]_vars

\* A join with the code of project p2 written in lower case has added member
\* m3 and its one membership, of p2, and a join with a code of no project
\* was answered PROJECT_NOT_FOUND.
C30_Witness ==
    /\ members = Members \cup {"m3"}
    /\ {pm \in projectMembers : pm.memberId = "m3"} =
          {[projectId |-> "p2", memberId |-> "m3", role |-> "MEMBER"]}
    /\ \E r, q \in ReqIds :
          /\ ProjectEnded(r, "JOIN", "OK") /\ preqs[r].projectId = "p2"
          /\ ProjectEnded(q, "JOIN", "PROJECT_NOT_FOUND")
          /\ preqs[q].inviteCode = "22223333"

\* No write to the project's tasks is in flight: no layout write, no
\* create-task request of the client or of the other member.
Quiet == Writing = {} /\ other.pc = "idle" /\ add.pc = "idle"

\* The client's columns are groupByStatus of the project's stored tasks.
Shown == columns = groupByStatus(BoardTasks(tasks, BoardProject))

\* C29: if from some point on no write is in flight, then from some point on
\* the client's columns are groupByStatus of the stored tasks of the project.
C29_ColumnsConvergeWhenWritersStop ==
    <>[]Quiet => <>[]Shown

\* The writers have stopped after a drag and another member's append, and
\* the columns do not show the stored tasks yet.
C29_Witness ==
    /\ Quiet /\ ~Shown
    /\ dragged = MaxDrag /\ other.count = MaxAppend

\* ------------------------------------------------------------------- C31
\* A body that lists one task id at two places.
Repeats(ids) == \E i, j \in 1..Len(ids) : i # j /\ ids[i] = ids[j]

\* Every listed id is a task of the project.
AllInProject(store, ids, projectId) ==
    \A i \in 1..Len(ids) :
        ids[i] \in DOMAIN store /\ store[ids[i]].projectId = projectId

\* C31: an Apply-layout whose batch lists the same task id more than once
\* ends at its validation with TASKS_NOT_IN_PROJECT and writes no row, also
\* when every listed id is a task of the target project; no batch with a
\* repeated id ever reaches the commit.
C31_RepeatedIdRejectsBatch ==
    [][\A r \in ReqIds :
          /\ (StartedBy(r, "PUT") /\ Repeats(reqs'[r].ids))
                => /\ reqs'[r].pc = "done"
                   /\ reqs'[r].resp = "TASKS_NOT_IN_PROJECT"
                   /\ tasks' = tasks
          /\ (reqs'[r].op = "PUT" /\ reqs'[r].pc = "commit")
                => ~Repeats(reqs'[r].ids)]_vars

\* A batch naming one task of the project twice was rejected.
C31_Witness ==
    \E r \in ReqIds :
        /\ Ended(r, "PUT", "TASKS_NOT_IN_PROJECT")
        /\ Repeats(reqs[r].ids)
        /\ AllInProject(tasks, reqs[r].ids, reqs[r].projectId)

\* ------------------------------------------------------------------- C32
\* The rows a creation request made: its Member, the memberships of that
\* member, the projects those memberships name.
RowsOfCreation(req) ==
    [member |-> {req.memberId} \cap members,
     memberships |-> {pm \in projectMembers : pm.memberId = req.memberId},
     projects |-> ProjectsOf(projectMembers, req.memberId)]

\* C32: after a project creation that ended with
\* INVITE_CODE_GENERATION_FAILED no row created by that request remains: no
\* Project, no ProjectMember and no Member.
C32_FailedCreationLeavesNoRow ==
    \A r \in ReqIds :
        ProjectEnded(r, "CREATE", "INVITE_CODE_GENERATION_FAILED")
        => RowsOfCreation(preqs[r]) =
              [member |-> {}, memberships |-> {}, projects |-> {}]

\* ------------------------------------------------------------------- C33
\* The store without the task `id`, the other rows as they are.
Without(store, id) == [i \in DOMAIN store \ {id} |-> store[i]]

\* C33: a delete of a task id that is not in the store, sent by an
\* identified caller, answers ok at its read and writes nothing; the delete
\* step of a request ends the request and leaves the store without the task
\* and otherwise as it was, which is the store itself when the task is
\* already gone (a second delete, also one racing the first, changes
\* nothing more).
C33_DeleteIsIdempotent ==
    [][\A r \in ReqIds :
          /\ (/\ StartedBy(r, "DELETE")
              /\ reqs'[r].memberId # ""
              /\ reqs'[r].taskId \notin DOMAIN tasks)
                => /\ reqs'[r].pc = "done" /\ reqs'[r].resp = "OK"
                   /\ tasks' = tasks
          /\ Stepped(r, "DELETE", "delete")
                => /\ reqs'[r].pc = "done"
                   /\ tasks' \in {tasks, Without(tasks, reqs[r].taskId)}
                   /\ reqs[r].taskId \notin DOMAIN tasks => tasks' = tasks
                   /\ reqs'[r].resp = "OK" => tasks' = Without(tasks, reqs[r].taskId)]_vars

\* Two deletes of task 1 ran together and both ended: the one removed the
\* row, the other found it gone at its delete; the store is the seed store
\* without task 1.
C33_Witness ==
    \E r, q \in ReqIds :
        /\ r # q
        /\ Ended(r, "DELETE", "OK") /\ Ended(q, "DELETE", "INTERNAL_ERROR")
        /\ reqs[r].taskId = 1 /\ reqs[q].taskId = 1
        /\ tasks = Without(SeedStore, 1)

\* ------------------------------------------------------------------- C34
\* A patch body that sets title, description, dueDate or assigneeId only.
FieldsOnly(body) ==
    /\ body.status = Undefined /\ body.order = NoOrder
    /\ body # EmptyPatch

\* The entry of the batch for the task `id`.
EntryOf(batch, id) == batch[CHOOSE i \in 1..Len(batch) : batch[i].id = id]

\* The row has the body's fields where the body has them.
HasPatch(row, body) ==
    /\ body.title # Undefined => row.title = body.title
    /\ body.description # Undefined => row.description = body.description
    /\ body.dueDate # Undefined => row.dueDate = body.dueDate
    /\ body.assigneeId # Undefined => row.assigneeId = body.assigneeId

\* The row has the entry's status and order.
HasLayout(row, e) == row.status = e.status /\ row.order = e.order

\* The patch `p` and the layout `l` have both been answered ok, the patch
\* sets fields only and the layout lists the patch's task.
BothDone(p, l) ==
    /\ p.op = "PATCH" /\ p.pc = "done" /\ p.resp = "OK" /\ FieldsOnly(p.patch)
    /\ l.op = "PUT" /\ l.pc = "done" /\ l.resp = "OK"
    /\ p.taskId \in Listed(l.batch)

\* C34: a patch that sets only title, description, dueDate or assigneeId and
\* a layout that lists the same task commute.  The patch's update leaves the
\* task's status and order and the layout's commit leaves the four fields of
\* every task it lists and gives it the entry's status and order, so in
\* either order of the two writes, and when the two requests run together
\* (they are the two requests of the run, both in their slots), the task
\* ends with the patched fields and the batch's status and order.
C34_PatchAndLayoutCommute ==
    [][\A r \in ReqIds :
          /\ (Stepped(r, "PATCH", "update") /\ reqs'[r].resp = "OK"
                /\ FieldsOnly(reqs'[r].patch))
                => LET id == reqs[r].taskId
                   IN  /\ tasks'[id].status = tasks[id].status
                       /\ tasks'[id].order = tasks[id].order
                       /\ HasPatch(tasks'[id], reqs'[r].patch)
          /\ (Stepped(r, "PUT", "commit") /\ reqs'[r].resp = "OK")
                => \A id \in Listed(reqs'[r].batch) :
                      /\ tasks'[id].title = tasks[id].title
                      /\ tasks'[id].description = tasks[id].description
                      /\ tasks'[id].dueDate = tasks[id].dueDate
                      /\ tasks'[id].assigneeId = tasks[id].assigneeId
                      /\ HasLayout(tasks'[id], EntryOf(reqs'[r].batch, id))
          /\ \A q \in ReqIds :
                (/\ BothDone(reqs'[r], reqs'[q])
                 /\ started' = 2
                 /\ reqs'[r].taskId \in DOMAIN tasks')
                => /\ HasPatch(tasks'[reqs'[r].taskId], reqs'[r].patch)
                   /\ HasLayout(tasks'[reqs'[r].taskId],
                                EntryOf(reqs'[q].batch, reqs'[r].taskId))]_vars

\* A patch of the title of task 1 and a layout that moves task 1 to DONE ran
\* together and both were answered ok: task 1 has the new title and is in
\* DONE with the batch's order.
C34_Witness ==
    \E r, q \in ReqIds :
        /\ BothDone(reqs[r], reqs[q])
        /\ reqs[r].taskId = 1
        /\ reqs[r].patch = [EmptyPatch EXCEPT !.title = "t2"]
        /\ EntryOf(reqs[q].batch, 1) = [id |-> 1, status |-> "DONE", order |-> 1]
        /\ tasks[1].title = "t2" /\ tasks[1].status = "DONE" /\ tasks[1].order = 1

\* ------------------------------------------------------------------- C35
\* The places (column, index) of the cards with the task id `id`.
Places(cols, id) ==
    UNION {{<<s, i>> : i \in {j \in 1..Len(cols[s]) : cols[s][j].id = id}} :
           s \in StatusSet}

\* The task ids the columns hold.
HeldIds(cols) == UNION {{cols[s][i].id : i \in 1..Len(cols[s])} : s \in StatusSet}

\* Every task id the columns hold is held at one place.
EachOnce(cols) == \A id \in HeldIds(cols) : Cardinality(Places(cols, id)) = 1

\* The card of the task `id`, for columns that hold it once.
CardOf(cols, id) ==
    LET p == CHOOSE q \in Places(cols, id) : TRUE IN cols[p[1]][p[2]]

\* This step is a drag step: it changes the columns and is not the receipt
\* of a refresh or of an added task.
DragStep == columns' # columns /\ gets' = gets /\ add' = add

\* C35: a drag step (onDragOver within a column or across columns,
\* onDragEnd) keeps the set of task ids the columns hold; columns that held
\* each id once hold each id once after it, so every task is in exactly one
\* column; a card changes in its status and order only; a card that is in
\* another column after the step has that column's status; and after
\* onDragEnd every card has its column's status and its index as order.
C35_DragStepsKeepTheTasks ==
    [][DragStep
       => /\ HeldIds(columns') = HeldIds(columns)
          /\ EachOnce(columns) => EachOnce(columns')
          /\ EachOnce(columns)
                => \A id \in HeldIds(columns) :
                      LET old == CardOf(columns, id)
                          new == CardOf(columns', id)
                      IN  /\ new = [old EXCEPT !.status = new.status,
                                               !.order = new.order]
                          /\ findContainer(id, columns') # findContainer(id, columns)
                                => new.status = findContainer(id, columns')
          /\ dragged' # dragged
                => \A s \in StatusSet : \A i \in 1..Len(columns'[s]) :
                      /\ columns'[s][i].status = s
                      /\ columns'[s][i].order = i - 1]_vars

\* A drag has taken task 1 from the first column to the last and ended
\* there: the card is alone in DONE with that status, task 2 is the one card
\* of TODO with order 0, the layout is on its way and the stored task 1 is
\* still in TODO.
C35_Witness ==
    /\ Len(columns["TODO"]) = 1 /\ columns["TODO"][1].id = 2
    /\ columns["TODO"][1].order = 0
    /\ columns["DOING"] = <<>>
    /\ Len(columns["DONE"]) = 1 /\ columns["DONE"][1].id = 1
    /\ columns["DONE"][1].status = "DONE"
    /\ \E w \in WriteIds :
          puts[w].pc = "sent" /\ puts[w].updates = flattenUpdates(columns)
    /\ tasks[1].status = "TODO"
=============================================================================
